---- MODULE Spec2Model ----
(***************************************************************************)
(* A model of the legal document analyzer: the upload pipeline of the      *)
(* UploadSection component with the upload and process-document routes,    *)
(* the risk assessment engine, the pattern clause classifier and the       *)
(* client-side abstractive summarizer.                                     *)
(*                                                                         *)
(* Each component has its own specification (SpecUpload is also Spec):     *)
(* the variables of the other components stay at their initial value.      *)
(***************************************************************************)
EXTENDS Integers, Sequences, FiniteSets, TLC

VARIABLES
    files,          \* UploadSection: the `files` React state (ProcessedFile[])
    isProcessing,   \* UploadSection: the `isProcessing` React state
    drops,          \* one record per onDrop call in flight or finished
    stageFailed,    \* history: per file, whether one of its stages failed
    rkInput,        \* risk engine: [clauses, text] handed to assessRisk
    rkResult,       \* risk engine: the RiskAssessment returned, or NoResult
    clInput,        \* classifier: [doc, rolls] handed to classifyDocument
    clResult,       \* classifier: the ClassificationResult, or NoResult
    clRerun,        \* classifier: [rolls, result] of a second run, or NoResult
    smInput,        \* summarizer: the text handed to generateAbstractiveSummary
    smResult,       \* summarizer: the AbstractiveSummaryResult, or NoResult
    mlInput,        \* multilingual summarizer: [text, languages] of the call
    mlCall,         \* multilingual summarizer: the locals of the call
    translatorCalls,\* the calls of translator.translateText, in order
    rtRequest,      \* an API route: the request it handles
    rtResponse,     \* an API route: the response it has sent, or NoResult
    pyCalls,        \* Python translator: the calls of translateText
    tempFile,       \* Python translator: scripts/temp_text.txt (<<>>: no file)
    utterances,     \* text to speech: the utterances handed to the synthesis
    currentUtterance, \* text to speech: the field (0 is null)
    paused,         \* text to speech: speechSynthesis.paused
    reported        \* text to speech: the last state given to onStateChange

vars == <<files, isProcessing, drops, stageFailed,
          rkInput, rkResult, clInput, clResult, clRerun, smInput, smResult,
          mlInput, mlCall, translatorCalls, rtRequest, rtResponse,
          pyCalls, tempFile, utterances, currentUtterance, paused, reported>>

uploadVars == <<files, isProcessing, drops, stageFailed>>
riskVars == <<rkInput, rkResult>>
classifierVars == <<clInput, clResult, clRerun>>
summarizerVars == <<smInput, smResult>>
multilingualVars == <<mlInput, mlCall, translatorCalls>>
routeVars == <<rtRequest, rtResponse>>
pythonVars == <<pyCalls, tempFile>>
speechVars == <<utterances, currentUtterance, paused, reported>>

NoResult == [none |-> TRUE]
Undefined == "undefined"

(***************************************************************************)
(* Generic helpers.                                                        *)
(***************************************************************************)
Min(a, b) == IF a <= b THEN a ELSE b
Max(a, b) == IF a >= b THEN a ELSE b

\* All sequences over S of length at most n.
SeqsUpTo(S, n) == UNION {[1..k -> S] : k \in 0..n}

RECURSIVE SumSeq(_)
SumSeq(s) == IF s = <<>> THEN 0 ELSE Head(s) + SumSeq(Tail(s))

(***************************************************************************)
(* PART 1.  The upload pipeline (components/upload-section.tsx and the     *)
(* upload / process-document routes).                                      *)
(***************************************************************************)

\* Bounds of the upload model.
MaxDrops == 2       \* onDrop calls
MaxFiles == 3       \* files over all onDrop calls

Statuses == {"uploading", "extracting", "preprocessing", "classifying",
             "completed", "error"}
TerminalStatuses == {"completed", "error"}
InFlightStatuses == {"extracting", "preprocessing", "classifying"}

\* What the PDF library does with an uploaded file.
PdfKinds == {"text", "scanned", "corrupt"}

\* Mutant of extractTextFromPDF: when the library fails the text is left
\* empty.
extractTextFromPDF_EmptyOnError(pdf) ==
    CASE pdf = "text"    -> [text |-> "extracted", isScanned |-> FALSE]
      [] pdf = "scanned" -> [text |-> "placeholder-scanned", isScanned |-> TRUE]
      [] pdf = "corrupt" -> [text |-> "", isScanned |-> TRUE]

\* extractTextFromPDF: never throws; a failing library or a text shorter
\* than 50 characters yields a placeholder body with isScanned = TRUE.
extractTextFromPDF(pdf) ==
    CASE pdf = "text"    -> [text |-> "extracted", isScanned |-> FALSE]
      [] pdf = "scanned" -> [text |-> "placeholder-scanned", isScanned |-> TRUE]
      [] pdf = "corrupt" -> [text |-> "placeholder-error", isScanned |-> TRUE]

\* POST /api/upload.  `server` is what the request handling itself does:
\* "ok", or "throws" (formData / arrayBuffer raising), answered 500.
UploadPOST(pdf, server) ==
    IF server = "throws"
    THEN [ok |-> FALSE, status |-> 500, error |-> "Failed to process PDF file"]
    ELSE [ok |-> TRUE, status |-> 200,
          extractedText |-> extractTextFromPDF(pdf).text,
          pageCount |-> "count"]

\* What POST /api/classify-clauses answers to process-document's fetch:
\* "ok" (200 with a result), "not_ok" (a 4xx/5xx answer), "throws" (the
\* fetch itself rejects).
ClassifyOutcomes == {"ok", "not_ok", "throws"}

\* POST /api/process-document.  A classification response that is not ok
\* leaves classificationResult null and the route still answers success.
ProcessDocumentPOST(extractedText, classify) ==
    IF extractedText = ""
    THEN [ok |-> FALSE, status |-> 400, error |-> "No text provided for processing"]
    ELSE IF classify = "throws"
    THEN [ok |-> FALSE, status |-> 500, error |-> "Failed to process document"]
    ELSE [ok |-> TRUE, status |-> 200,
          wordCount |-> "count",
          classificationResult |-> IF classify = "ok" THEN "result" ELSE "null"]

\* newFiles entry of onDrop.
NewFile == [status |-> "uploading", progress |-> 0, currentStep |-> Undefined,
            extractedText |-> Undefined, pageCount |-> Undefined,
            wordCount |-> Undefined, classificationResult |-> Undefined]

\* updateFileStatus: the setFiles updater.  `additionalData` is a record
\* whose fields overwrite those of the entry; an index beyond the list
\* changes nothing.
Overwrite(entry, data) ==
    [f \in DOMAIN entry |-> IF f \in DOMAIN data THEN data[f] ELSE entry[f]]

updateFileStatus(prev, fileIndex, status, progress, currentStep, additionalData) ==
    IF fileIndex \in DOMAIN prev
    THEN [prev EXCEPT ![fileIndex] =
            Overwrite([@ EXCEPT !.status = status, !.progress = progress,
                                !.currentStep = currentStep],
                      additionalData)]
    ELSE prev

NoData == [x \in {} |-> Undefined]

\* The continuations of an onDrop call run to completion: between two of
\* its awaits no other callback runs.  A drop whose pc is one of these is
\* in the middle of such a synchronous stretch.
SyncPcs == {"loop", "complete"}

Quiet(d) == \A e \in DOMAIN drops : e # d => drops[e].pc \notin SyncPcs

\* onDrop up to the loop: the new entries are appended with status
\* "uploading" and isProcessing is set.  fileIndex of file i is
\* files.length + i (0-based); here base + i + 1 (1-based).
OnDrop(n) ==
    /\ Len(drops) < MaxDrops
    /\ Len(files) + n <= MaxFiles
    /\ \A e \in DOMAIN drops : drops[e].pc \notin SyncPcs
    /\ files' = files \o [k \in 1..n |-> NewFile]
    /\ stageFailed' = stageFailed \o [k \in 1..n |-> FALSE]
    /\ isProcessing' = TRUE
    /\ drops' = Append(drops, [base |-> Len(files), n |-> n,
                               i |-> 0, pc |-> "loop",
                               uploadResult |-> NoResult,
                               processResult |-> NoResult])
    /\ UNCHANGED <<riskVars, classifierVars, summarizerVars,
                 multilingualVars, routeVars, pythonVars,
                 speechVars>>

\* The loop head with i < newFiles.length: processFile(acceptedFiles[i], ...)
\* runs to its first await, setting the file to "extracting".
ProcessFileStart(d) ==
    /\ drops[d].pc = "loop"
    /\ drops[d].i < drops[d].n
    /\ files' = updateFileStatus(files, drops[d].base + drops[d].i + 1,
                                 "extracting", 20, "Extracting text from PDF...",
                                 NoData)
    /\ drops' = [drops EXCEPT ![d].pc = "awaitUpload"]
    /\ UNCHANGED <<isProcessing, stageFailed, riskVars, classifierVars, summarizerVars,
                 multilingualVars, routeVars, pythonVars,
                 speechVars>>

\* The loop head with i = newFiles.length: setIsProcessing(false).
OnDropEnd(d) ==
    /\ drops[d].pc = "loop"
    /\ drops[d].i = drops[d].n
    /\ isProcessing' = FALSE
    /\ drops' = [drops EXCEPT ![d].pc = "done"]
    /\ UNCHANGED <<files, stageFailed, riskVars, classifierVars, summarizerVars,
                 multilingualVars, routeVars, pythonVars,
                 speechVars>>

\* Mutant of ProcessFileCatch: the error is not caught in processFile, so
\* it leaves the loop of onDrop.
ProcessFileCatch_Rethrows(d) ==
    /\ files' = updateFileStatus(files, drops[d].base + drops[d].i + 1,
                                 "error", 0, "Processing failed", NoData)
    /\ drops' = [drops EXCEPT ![d].pc = "done", ![d].uploadResult = NoResult]

\* The catch block of processFile; processFile returns and the loop of
\* onDrop goes on with the next file.
ProcessFileCatch(d) ==
    /\ files' = updateFileStatus(files, drops[d].base + drops[d].i + 1,
                                 "error", 0, "Processing failed", NoData)
    /\ drops' = [drops EXCEPT ![d].pc = "loop", ![d].i = @ + 1,
                              ![d].uploadResult = NoResult]

\* The answer to fetch("/api/upload"): `net` is FALSE when the fetch or
\* the parsing of its body rejects; `pdf` is what the PDF library makes of
\* the file's bytes.
UploadResponse(d, net, server, pdf) ==
    /\ drops[d].pc = "awaitUpload"
    /\ Quiet(d)
    /\ LET idx == drops[d].base + drops[d].i + 1
           resp == UploadPOST(pdf, server)
       IN  IF net /\ resp.ok
           THEN /\ files' = updateFileStatus(files, idx, "preprocessing", 40,
                                "Preprocessing extracted text...", NoData)
                /\ drops' = [drops EXCEPT ![d].pc = "awaitProcess",
                                          ![d].uploadResult = resp]
                /\ UNCHANGED stageFailed
           ELSE /\ ProcessFileCatch(d)
                /\ stageFailed' = [stageFailed EXCEPT ![idx] = TRUE]
    /\ UNCHANGED <<isProcessing, riskVars, classifierVars, summarizerVars,
                 multilingualVars, routeVars, pythonVars,
                 speechVars>>

\* The answer to fetch("/api/process-document"); on success the file is
\* set to "classifying" and the completing update follows.
ProcessResponse(d, net, classify) ==
    /\ drops[d].pc = "awaitProcess"
    /\ Quiet(d)
    /\ LET idx == drops[d].base + drops[d].i + 1
           resp == ProcessDocumentPOST(drops[d].uploadResult.extractedText, classify)
       IN  /\ IF net /\ resp.ok
              THEN /\ files' = updateFileStatus(files, idx, "classifying", 80,
                                   "Running ML clause classification...", NoData)
                   /\ drops' = [drops EXCEPT ![d].pc = "complete",
                                   ![d].processResult = resp]
              ELSE ProcessFileCatch(d)
           /\ stageFailed' = [stageFailed EXCEPT
                                 ![idx] = ~net \/ ~resp.ok \/ classify # "ok"]
    /\ UNCHANGED <<isProcessing, riskVars, classifierVars, summarizerVars,
                 multilingualVars, routeVars, pythonVars,
                 speechVars>>

\* Mutant of ProcessFileComplete: the file is marked as failed after it
\* was completed (a catch block that also runs on success).
ProcessFileComplete_ThenError(d) ==
    /\ drops[d].pc \in {"complete", "completed"}
    /\ files' = updateFileStatus(files, drops[d].base + drops[d].i + 1,
                    IF drops[d].pc = "complete" THEN "completed" ELSE "error",
                    IF drops[d].pc = "complete" THEN 100 ELSE 0,
                    "Analysis complete", NoData)
    /\ drops' = IF drops[d].pc = "complete"
                THEN [drops EXCEPT ![d].pc = "completed"]
                ELSE [drops EXCEPT ![d].pc = "loop", ![d].i = @ + 1,
                                   ![d].uploadResult = NoResult,
                                   ![d].processResult = NoResult]
    /\ UNCHANGED <<isProcessing, stageFailed, riskVars, classifierVars, summarizerVars,
                 multilingualVars, routeVars, pythonVars,
                 speechVars>>

\* Step 3 of processFile: the results are stored with status "completed".
ProcessFileComplete(d) ==
    /\ drops[d].pc = "complete"
    /\ files' = updateFileStatus(files, drops[d].base + drops[d].i + 1,
                    "completed", 100, "Analysis complete",
                    [extractedText |-> drops[d].uploadResult.extractedText,
                     pageCount |-> drops[d].uploadResult.pageCount,
                     wordCount |-> drops[d].processResult.wordCount,
                     classificationResult |-> drops[d].processResult.classificationResult])
    /\ drops' = [drops EXCEPT ![d].pc = "loop", ![d].i = @ + 1,
                              ![d].uploadResult = NoResult,
                              ![d].processResult = NoResult]
    /\ UNCHANGED <<isProcessing, stageFailed, riskVars, classifierVars, summarizerVars,
                 multilingualVars, routeVars, pythonVars,
                 speechVars>>

(***************************************************************************)
(* PART 2.  The risk assessment engine (lib/risk-assessment-engine.ts).    *)
(*                                                                         *)
(* A text is a sequence of words (the words of the string, separated by    *)
(* single blanks); a phrase is a sequence of lower-case words, and         *)
(* String.includes(phrase) is the occurrence of the phrase as consecutive  *)
(* words.  A confidence is a number of hundredths (75 is 0.75).            *)
(***************************************************************************)

\* Bounds of the risk model.
MaxWords == 3           \* words of a document text
MaxClauses == 2         \* clauses of a classification result

ClauseTypes == <<"termination", "nda", "payment", "liability", "intellectual_property">>
ClauseTypeSet == {ClauseTypes[k] : k \in DOMAIN ClauseTypes}
RiskLevels == {"low", "medium", "high"}

\* The words texts are made of, in the spellings the inputs use.
Words == {"unlimited", "Unlimited", "liability", "LIABILITY", "personal",
          "guarantee", "arbitration", "force", "majeure"}

\* String.prototype.toLowerCase on a word, and on a text.
LowerWord(w) ==
    CASE w \in {"Unlimited", "UNLIMITED"} -> "unlimited"
      [] w = "LIABILITY" -> "liability"
      [] w = "Personal" -> "personal"
      [] w = "A" -> "a"
      [] w = "Each" -> "each"
      [] w = "Either" -> "either"
      [] w = "The" -> "the"
      [] w = "This" -> "this"
      [] OTHER -> w

toLowerCase(text) == [k \in DOMAIN text |-> LowerWord(text[k])]

\* String.prototype.includes.
includes(text, phrase) ==
    \E k \in 0..(Len(text) - Len(phrase)) :
        \A j \in DOMAIN phrase : text[k + j] = phrase[j]

RISK_WEIGHTS ==
    [termination |-> [high |-> 25, medium |-> 15, low |-> 5],
     liability |-> [high |-> 30, medium |-> 20, low |-> 8],
     payment |-> [high |-> 20, medium |-> 12, low |-> 4],
     nda |-> [high |-> 15, medium |-> 10, low |-> 3],
     intellectual_property |-> [high |-> 18, medium |-> 12, low |-> 5]]

CRITICAL_PATTERNS ==
    << <<"unlimited", "liability">>,
       <<"personal", "guarantee">>,
       <<"immediate", "termination", "without", "cause">>,
       <<"waive", "all", "rights">>,
       <<"perpetual", "license">>,
       <<"no", "limitation", "of", "damages">>,
       <<"indemnify", "against", "all", "claims">> >>

COMPLIANCE_RISKS ==
    << [jurisdiction |-> "GDPR",
        keywords |-> << <<"personal", "data">>, <<"data", "processing">>,
                        <<"data", "subject", "rights">>, <<"privacy", "policy">> >>],
       [jurisdiction |-> "EMPLOYMENT",
        keywords |-> << <<"at-will", "employment">>, <<"non-compete">>,
                        <<"overtime">>, <<"benefits">> >>],
       [jurisdiction |-> "CONSUMER",
        keywords |-> << <<"consumer", "protection">>, <<"warranty">>,
                        <<"return", "policy">>, <<"dispute", "resolution">> >>],
       [jurisdiction |-> "SECURITIES",
        keywords |-> << <<"investment">>, <<"securities">>, <<"disclosure">>,
                        <<"material", "information">> >>] >>

\* Mutant of calculateOverallRiskScore: the score is normalised by the
\* weight of each clause's own risk level instead of its "high" weight.
RECURSIVE ScoreTotals_OwnLevel(_)
ScoreTotals_OwnLevel(clauses) ==
    IF clauses = <<>> THEN [totalScore |-> 0, maxPossibleScore |-> 0]
    ELSE LET rest == ScoreTotals_OwnLevel(SubSeq(clauses, 1, Len(clauses) - 1))
             clause == clauses[Len(clauses)]
             weight == RISK_WEIGHTS[clause.type]
         IN  [totalScore |-> rest.totalScore + weight[clause.riskLevel] * clause.confidence,
              maxPossibleScore |-> rest.maxPossibleScore + weight[clause.riskLevel]]

calculateOverallRiskScore_OwnLevel(result) ==
    LET t == ScoreTotals_OwnLevel(result.clauses)
    IN  IF t.maxPossibleScore > 0
        THEN Min(100, (2 * t.totalScore + t.maxPossibleScore) \div (2 * t.maxPossibleScore))
        ELSE 0

\* The forEach of calculateOverallRiskScore: totalScore (in hundredths)
\* and maxPossibleScore after the clauses, taken in order.
RECURSIVE ScoreTotals(_)
ScoreTotals(clauses) ==
    IF clauses = <<>> THEN [totalScore |-> 0, maxPossibleScore |-> 0]
    ELSE LET rest == ScoreTotals(SubSeq(clauses, 1, Len(clauses) - 1))
             clause == clauses[Len(clauses)]
             weight == RISK_WEIGHTS[clause.type]
         IN  [totalScore |-> rest.totalScore + weight[clause.riskLevel] * clause.confidence,
              maxPossibleScore |-> rest.maxPossibleScore + weight.high]

\* Mutant of calculateOverallRiskScore: the normalisation divides without
\* the test maxPossibleScore > 0.  0 / 0 is NaN, which Math.min and
\* Math.round hand on and which is below no threshold: 1000 stands for it.
calculateOverallRiskScore_NoZeroTest(result) ==
    LET t == ScoreTotals(result.clauses)
    IN  IF t.maxPossibleScore = 0 THEN 1000
        ELSE Min(100, (2 * t.totalScore + t.maxPossibleScore) \div (2 * t.maxPossibleScore))

\* calculateOverallRiskScore: Math.min(100, Math.round(normalizedScore)),
\* where normalizedScore = totalScore / maxPossibleScore * 100 and
\* Math.round(x) = floor(x + 1/2).  With totalScore in hundredths,
\* normalizedScore is totalScore / maxPossibleScore.
calculateOverallRiskScore(result) ==
    LET t == ScoreTotals(result.clauses)
    IN  IF t.maxPossibleScore > 0
        THEN Min(100, (2 * t.totalScore + t.maxPossibleScore) \div (2 * t.maxPossibleScore))
        ELSE 0

\* Mutant of calculateRiskGrade: strict comparisons.
calculateRiskGrade_Strict(score) ==
    IF score < 20 THEN "A"
    ELSE IF score < 40 THEN "B"
    ELSE IF score < 60 THEN "C"
    ELSE IF score < 80 THEN "D"
    ELSE "F"

calculateRiskGrade(score) ==
    IF score <= 20 THEN "A"
    ELSE IF score <= 40 THEN "B"
    ELSE IF score <= 60 THEN "C"
    ELSE IF score <= 80 THEN "D"
    ELSE "F"

getClauseCategoryMapping(clauseType) ==
    CASE clauseType = "payment" -> "financial"
      [] clauseType = "liability" -> "legal"
      [] clauseType = "termination" -> "operational"
      [] clauseType = "nda" -> "compliance"
      [] clauseType = "intellectual_property" -> "legal"
      [] OTHER -> "legal"

getRecommendation(clauseType, riskLevel) ==
    IF clauseType \in {"termination", "liability", "payment"}
    THEN <<"recommendation", clauseType, riskLevel>>
    ELSE <<"Consult legal counsel for detailed review.">>

\* identifyMissingProtections: the titles of the protections not found.
identifyMissingProtections(result, documentText) ==
    LET lowerText == toLowerCase(documentText)
    IN  (IF ~includes(lowerText, <<"force", "majeure">>)
            /\ ~includes(lowerText, <<"act", "of", "god">>)
         THEN << [title |-> "Force Majeure Clause",
                  recommendation |-> <<"Add force majeure clause">>] >>
         ELSE <<>>)
        \o
        (IF ~includes(lowerText, <<"arbitration">>)
            /\ ~includes(lowerText, <<"mediation">>)
            /\ ~includes(lowerText, <<"dispute", "resolution">>)
         THEN << [title |-> "Dispute Resolution Mechanism",
                  recommendation |-> <<"Include arbitration or mediation clause">>] >>
         ELSE <<>>)

severityOrder == [critical |-> 4, high |-> 3, medium |-> 2, low |-> 1]

\* Mutant of CompareSeverity: the comparator with its operands swapped.
CompareSeverity_Ascending(a, b) == severityOrder[a.severity] - severityOrder[b.severity]

\* The comparator of the sort of identifyRiskFactors.
CompareSeverity(a, b) == severityOrder[b.severity] - severityOrder[a.severity]

\* Array.prototype.sort with CompareSeverity: a stable sort.
RECURSIVE InsertBySeverity(_, _)
InsertBySeverity(x, sorted) ==
    IF sorted = <<>> THEN <<x>>
    ELSE IF CompareSeverity(x, Head(sorted)) < 0 THEN <<x>> \o sorted
    ELSE <<Head(sorted)>> \o InsertBySeverity(x, Tail(sorted))

RECURSIVE SortBySeverity(_)
SortBySeverity(fs) ==
    IF fs = <<>> THEN <<>>
    ELSE InsertBySeverity(fs[Len(fs)], SortBySeverity(SubSeq(fs, 1, Len(fs) - 1)))

IsHighRisk(c) == c.riskLevel = "high"

\* The three sources of risk factors, in the order they are pushed.
CriticalFactors(result, lowerText) ==
    LET hit == SelectSeq([k \in DOMAIN CRITICAL_PATTERNS |-> k],
                         LAMBDA k : includes(lowerText, CRITICAL_PATTERNS[k]))
    IN  [n \in DOMAIN hit |->
            LET pattern == CRITICAL_PATTERNS[hit[n]]
                related == SelectSeq(result.clauses,
                              LAMBDA c : includes(toLowerCase(c.text), pattern))
            IN  [id |-> <<"critical", hit[n] - 1>>,
                 category |-> "legal",
                 severity |-> "critical",
                 recommendation |-> <<"Immediate legal review required.">>,
                 clauses |-> [j \in DOMAIN related |-> related[j].type]]]

\* Mutant of HighRiskFactors: medium-risk clauses give a factor as well.
HighRiskFactors_NotLow(result) ==
    LET high == SelectSeq(result.clauses, LAMBDA c : c.riskLevel # "low")
    IN  [n \in DOMAIN high |->
            [id |-> <<"high-risk", n - 1>>,
             category |-> getClauseCategoryMapping(high[n].type),
             severity |-> "high",
             recommendation |-> getRecommendation(high[n].type, "high"),
             clauses |-> <<high[n].type>>]]

HighRiskFactors(result) ==
    LET high == SelectSeq(result.clauses, IsHighRisk)
    IN  [n \in DOMAIN high |->
            [id |-> <<"high-risk", n - 1>>,
             category |-> getClauseCategoryMapping(high[n].type),
             severity |-> "high",
             recommendation |-> getRecommendation(high[n].type, "high"),
             clauses |-> <<high[n].type>>]]

MissingFactors(result, documentText) ==
    LET missing == identifyMissingProtections(result, documentText)
    IN  [n \in DOMAIN missing |->
            [id |-> <<"missing", n - 1>>,
             category |-> "legal",
             severity |-> "medium",
             recommendation |-> missing[n].recommendation,
             clauses |-> <<>>]]

\* Mutant of identifyRiskFactors: the critical patterns are looked for in
\* the text as it is, not in its lower-case form.
identifyRiskFactors_CaseSensitive(result, documentText) ==
    SortBySeverity(CriticalFactors(result, documentText)
                   \o HighRiskFactors(result)
                   \o MissingFactors(result, documentText))

identifyRiskFactors(result, documentText) ==
    SortBySeverity(CriticalFactors(result, toLowerCase(documentText))
                   \o HighRiskFactors(result)
                   \o MissingFactors(result, documentText))

\* [...new Set(list)]: the first occurrence of each element, in order.
RECURSIVE Unique(_)
Unique(s) ==
    IF s = <<>> THEN <<>>
    ELSE LET init == Unique(SubSeq(s, 1, Len(s) - 1))
             last == s[Len(s)]
         IN  IF \E k \in DOMAIN init : init[k] = last THEN init
             ELSE Append(init, last)

generateRecommendations(riskFactors, result) ==
    LET urgent == SelectSeq(riskFactors,
                      LAMBDA rf : rf.severity = "critical" \/ rf.severity = "high")
        medium == SelectSeq(riskFactors, LAMBDA rf : rf.severity = "medium")
    IN  [immediate |-> Unique([k \in DOMAIN urgent |-> urgent[k].recommendation]),
         shortTerm |-> Unique([k \in DOMAIN medium |-> medium[k].recommendation]),
         longTerm |-> << <<"Establish regular contract review process">>,
                         <<"Create standardized contract templates">>,
                         <<"Implement contract management system">> >>]

assessComplianceRisks(documentText) ==
    LET lowerText == toLowerCase(documentText)
        found(j) == SelectSeq(COMPLIANCE_RISKS[j].keywords,
                              LAMBDA keyword : includes(lowerText, keyword))
        hit == SelectSeq([j \in DOMAIN COMPLIANCE_RISKS |-> j],
                         LAMBDA j : Len(found(j)) > 0)
    IN  [n \in DOMAIN hit |->
            [jurisdiction |-> COMPLIANCE_RISKS[hit[n]].jurisdiction,
             issues |-> found(hit[n]),
             severity |-> IF Len(found(hit[n])) > 2 THEN "high" ELSE "medium"]]

\* Mutant of assessFinancialImpact: three high-risk clauses are enough for
\* 'high'.
assessFinancialImpact_FromThree(result, documentText) ==
    LET highRiskClauses == SelectSeq(result.clauses, IsHighRisk)
        lowerText == toLowerCase(documentText)
    IN  IF includes(lowerText, <<"unlimited", "liability">>)
           \/ includes(lowerText, <<"personal", "guarantee">>)
        THEN [costRisk |-> "critical", potentialLiability |-> "Unlimited"]
        ELSE IF Len(highRiskClauses) >= 3
        THEN [costRisk |-> "high", potentialLiability |-> "Significant"]
        ELSE IF Len(highRiskClauses) > 1
        THEN [costRisk |-> "medium", potentialLiability |-> "Moderate"]
        ELSE [costRisk |-> "low", potentialLiability |-> "Limited"]

assessFinancialImpact(result, documentText) ==
    LET highRiskClauses == SelectSeq(result.clauses, IsHighRisk)
        lowerText == toLowerCase(documentText)
    IN  IF includes(lowerText, <<"unlimited", "liability">>)
           \/ includes(lowerText, <<"personal", "guarantee">>)
        THEN [costRisk |-> "critical", potentialLiability |-> "Unlimited"]
        ELSE IF Len(highRiskClauses) > 3
        THEN [costRisk |-> "high", potentialLiability |-> "Significant"]
        ELSE IF Len(highRiskClauses) > 1
        THEN [costRisk |-> "medium", potentialLiability |-> "Moderate"]
        ELSE [costRisk |-> "low", potentialLiability |-> "Limited"]

\* RiskAssessmentEngine.assessRisk.
assessRisk(classificationResult, documentText) ==
    LET overallRiskScore == calculateOverallRiskScore(classificationResult)
        riskFactors == identifyRiskFactors(classificationResult, documentText)
    IN  [overallRiskScore |-> overallRiskScore,
         riskGrade |-> calculateRiskGrade(overallRiskScore),
         riskFactors |-> riskFactors,
         recommendations |-> generateRecommendations(riskFactors, classificationResult),
         complianceIssues |-> assessComplianceRisks(documentText),
         financialImpact |-> assessFinancialImpact(classificationResult, documentText)]

\* The confidences of the clauses handed to the engine, in hundredths.
Confidences == {75, 80}

\* Inputs that vary the clauses: every clause type, risk level and
\* confidence, with a text that has or has not a critical pattern.
ScoreClauses ==
    [type : ClauseTypeSet, riskLevel : RiskLevels, confidence : Confidences,
     text : {<<>>}]
ScoreTexts == {<<"arbitration">>, <<"UNLIMITED", "liability">>}

\* Inputs that vary the text: every text of at most MaxWords words, with
\* few clauses.
FactorClauses ==
    {[type |-> "liability", riskLevel |-> "high", confidence |-> 80,
      text |-> <<"Unlimited", "liability">>],
     [type |-> "payment", riskLevel |-> "medium", confidence |-> 75,
      text |-> <<"guarantee">>]}

\* Inputs that vary the number of high-risk clauses: every list of 3 to
\* MaxImpactClauses termination clauses that are high or medium risk.
MaxImpactClauses == 5
ImpactClauses ==
    UNION {{[k \in 1..n |->
                [type |-> "termination",
                 riskLevel |-> IF k \in high THEN "high" ELSE "medium",
                 confidence |-> 80, text |-> <<>>]] : high \in SUBSET (1..n)} :
           n \in 3..MaxImpactClauses}
ImpactTexts == {<<"arbitration">>, <<"Personal", "guarantee">>}

RiskInputs ==
    ([clauses : SeqsUpTo(ScoreClauses, MaxClauses), text : ScoreTexts])
    \cup ([clauses : SeqsUpTo(FactorClauses, MaxClauses),
           text : SeqsUpTo(Words, MaxWords)])
    \cup ([clauses : ImpactClauses, text : ImpactTexts])

InitRisk ==
    /\ rkInput \in RiskInputs
    /\ rkResult = NoResult

\* A call of assessRisk on the input.
AssessRisk ==
    /\ rkResult = NoResult
    /\ rkResult' = assessRisk([clauses |-> rkInput.clauses], rkInput.text)
    /\ UNCHANGED <<rkInput, uploadVars, classifierVars, summarizerVars,
                 multilingualVars, routeVars, pythonVars,
                 speechVars>>

(***************************************************************************)
(* PART 3.  The pattern clause classifier (lib/ml-classifier.ts).          *)
(*                                                                         *)
(* A document is a sequence of sentences of a catalogue, joined by single  *)
(* blanks.  Of each sentence the model knows its length, its words         *)
(* (offset, length), the matches of CLAUSE_PATTERNS in it and the          *)
(* occurrences of the risk keywords in it (offset, length), as the regular *)
(* expressions and String.includes find them in the sentence.  A match or  *)
(* keyword is in a context window when it lies in it entirely.             *)
(* Math.random() is a roll in hundredths.                                  *)
(***************************************************************************)

\* Bound of the classifier model.
MaxSentences == 2       \* sentences of a document (scenario documents apart)

\* "This agreement shall be terminated immediately without notice."
SentenceT ==
    [len |-> 62,
     words |-> << <<0, 4>>, <<5, 9>>, <<15, 5>>, <<21, 2>>, <<24, 10>>,
                 <<35, 11>>, <<47, 7>>, <<55, 7>> >>,
     matches |-> << [type |-> "termination", pattern |-> 1,
                    off |-> 24, len |-> 9] >>,
     keywords |-> { [kw |-> "immediate", off |-> 35, len |-> 9],
                   [kw |-> "without notice", off |-> 47, len |-> 14],
                   [kw |-> "<complex>", off |-> 15, len |-> 5] }]

\* "The employee shall be liable for unlimited damages."
SentenceL ==
    [len |-> 51,
     words |-> << <<0, 3>>, <<4, 8>>, <<13, 5>>, <<19, 2>>, <<22, 6>>,
                 <<29, 3>>, <<33, 9>>, <<43, 8>> >>,
     matches |-> << [type |-> "liability", pattern |-> 1,
                    off |-> 43, len |-> 7] >>,
     keywords |-> { [kw |-> "unlimited", off |-> 33, len |-> 9],
                   [kw |-> "damages", off |-> 43, len |-> 7],
                   [kw |-> "<complex>", off |-> 13, len |-> 5] }]

\* "Each party shall keep the confidential records of the other party
\* secret."
SentenceN ==
    [len |-> 73,
     words |-> << <<0, 4>>, <<5, 5>>, <<11, 5>>, <<17, 4>>, <<22, 3>>,
                 <<26, 12>>, <<39, 7>>, <<47, 2>>, <<50, 3>>, <<54, 5>>,
                 <<60, 5>>, <<66, 7>> >>,
     matches |-> << [type |-> "nda", pattern |-> 1,
                    off |-> 26, len |-> 12] >>,
     keywords |-> { [kw |-> "<complex>", off |-> 11, len |-> 5] }]

\* "Either party may terminate this agreement immediately upon written
\* notice."
SentenceW ==
    [len |-> 74,
     words |-> << <<0, 6>>, <<7, 5>>, <<13, 3>>, <<17, 9>>, <<27, 4>>,
                 <<32, 9>>, <<42, 11>>, <<54, 4>>, <<59, 7>>, <<67, 7>> >>,
     matches |-> << [type |-> "termination", pattern |-> 1,
                    off |-> 17, len |-> 9] >>,
     keywords |-> { [kw |-> "written notice", off |-> 59, len |-> 14],
                   [kw |-> "immediate", off |-> 42, len |-> 9] }]

\* "The license is perpetual and irrevocable at the sole discretion of
\* the owner."
SentenceH ==
    [len |-> 77,
     words |-> << <<0, 3>>, <<4, 7>>, <<12, 2>>, <<15, 9>>, <<25, 3>>,
                 <<29, 11>>, <<41, 2>>, <<44, 3>>, <<48, 4>>, <<53, 10>>,
                 <<64, 2>>, <<67, 3>>, <<71, 6>> >>,
     matches |-> << [type |-> "intellectual_property", pattern |-> 2,
                    off |-> 4, len |-> 7] >>,
     keywords |-> { [kw |-> "perpetual", off |-> 15, len |-> 9],
                   [kw |-> "irrevocable", off |-> 29, len |-> 11],
                   [kw |-> "sole discretion", off |-> 48, len |-> 15] }]

\* "A late fee and interest apply to each unpaid invoice, salary payment
\* or retainer."
SentenceP ==
    [len |-> 81,
     words |-> << <<0, 1>>, <<2, 4>>, <<7, 3>>, <<11, 3>>, <<15, 8>>,
                 <<24, 5>>, <<30, 2>>, <<33, 4>>, <<38, 6>>, <<45, 8>>,
                 <<54, 6>>, <<61, 7>>, <<69, 2>>, <<72, 9>> >>,
     matches |-> << [type |-> "payment", pattern |-> 1,
                    off |-> 7, len |-> 3],
                   [type |-> "payment", pattern |-> 1,
                    off |-> 45, len |-> 7],
                   [type |-> "payment", pattern |-> 1,
                    off |-> 54, len |-> 6],
                   [type |-> "payment", pattern |-> 1,
                    off |-> 61, len |-> 7],
                   [type |-> "payment", pattern |-> 2,
                    off |-> 15, len |-> 8],
                   [type |-> "payment", pattern |-> 3,
                    off |-> 72, len |-> 8] >>,
     keywords |-> { [kw |-> "late fee", off |-> 2, len |-> 8] }]

\* "The sky is blue and the grass is green along the river bank."
SentenceG ==
    [len |-> 60,
     words |-> << <<0, 3>>, <<4, 3>>, <<8, 2>>, <<11, 4>>, <<16, 3>>,
                 <<20, 3>>, <<24, 5>>, <<30, 2>>, <<33, 5>>, <<39, 5>>,
                 <<45, 3>>, <<49, 5>>, <<55, 5>> >>,
     matches |-> <<  >>,
     keywords |-> {  }]

\* "The sky is blue and the grass is green along the river bank, and the
\* old stone bridge stands where the road bends toward the hills, and the
\* wind moves slowly over the open fields until the sun goes down and the
\* stars come out again."
SentenceF ==
    [len |-> 232,
     words |-> << <<0, 3>>, <<4, 3>>, <<8, 2>>, <<11, 4>>, <<16, 3>>,
                 <<20, 3>>, <<24, 5>>, <<30, 2>>, <<33, 5>>, <<39, 5>>,
                 <<45, 3>>, <<49, 5>>, <<55, 5>>, <<61, 3>>, <<65, 3>>,
                 <<69, 3>>, <<73, 5>>, <<79, 6>>, <<86, 6>>, <<93, 5>>,
                 <<99, 3>>, <<103, 4>>, <<108, 5>>, <<114, 6>>,
                 <<121, 3>>, <<125, 6>>, <<132, 3>>, <<136, 3>>,
                 <<140, 4>>, <<145, 5>>, <<151, 6>>, <<158, 4>>,
                 <<163, 3>>, <<167, 4>>, <<172, 6>>, <<179, 5>>,
                 <<185, 3>>, <<189, 3>>, <<193, 4>>, <<198, 4>>,
                 <<203, 3>>, <<207, 3>>, <<211, 5>>, <<217, 4>>,
                 <<222, 3>>, <<226, 6>> >>,
     matches |-> <<  >>,
     keywords |-> {  }]

Sentences ==
    [T |-> SentenceT, L |-> SentenceL, N |-> SentenceN, W |-> SentenceW,
     H |-> SentenceH, P |-> SentenceP, G |-> SentenceG, F |-> SentenceF]

SentenceIds == DOMAIN Sentences

\* The number of regular expressions of each clause type.
CLAUSE_PATTERNS ==
    [termination |-> 3, nda |-> 3, payment |-> 3, liability |-> 2,
     intellectual_property |-> 2]

RISK_KEYWORDS ==
    [high |-> <<"unlimited liability", "personal guarantee",
                "immediate termination", "no notice", "perpetual",
                "irrevocable", "waive all rights", "without cause",
                "sole discretion", "no limitation", "indemnify against all",
                "hold harmless">>,
     medium |-> <<"reasonable notice", "material breach", "cure period",
                  "limited liability", "indemnification", "30 days notice",
                  "written notice", "breach of contract", "liquidated damages">>]

CONTEXT == 200          \* characters of context on each side of a match
MIN_CONTEXT == 50       \* shorter context texts are skipped
DEDUP_DISTANCE == 100   \* start offsets closer than this are duplicates
MAX_CLAUSES == 20       \* slice(0, 20)
LONG_CLAUSE == 300      \* isLongClause

RECURSIVE Flatten(_)
Flatten(ss) == IF ss = <<>> THEN <<>> ELSE Head(ss) \o Flatten(Tail(ss))

\* The offset at which each sentence of the document starts.
Starts(doc) ==
    [k \in DOMAIN doc |-> SumSeq([j \in 1..(k - 1) |-> Sentences[doc[j]].len + 1])]

\* text.length
TextLength(doc) ==
    IF doc = <<>> THEN 0
    ELSE Starts(doc)[Len(doc)] + Sentences[doc[Len(doc)]].len

\* The positions of the blanks between the sentences.
Blanks(doc) == {Starts(doc)[k] - 1 : k \in 2..Len(doc)}

\* The words of the text, each <<index, length>>.
TextWords(doc) ==
    UNION {{<<Starts(doc)[k] + w[1], w[2]>> :
                w \in {Sentences[doc[k]].words[j] :
                          j \in DOMAIN Sentences[doc[k]].words}} :
           k \in DOMAIN doc}

\* The occurrences of the keywords in the text.
TextKeywords(doc) ==
    UNION {{[kw |-> o.kw, index |-> Starts(doc)[k] + o.off, len |-> o.len] :
                o \in Sentences[doc[k]].keywords} : k \in DOMAIN doc}

\* Array.from(text.matchAll(pattern)) for pattern number p of a type: the
\* matches in text order.
MatchAll(doc, type, p) ==
    Flatten([k \in DOMAIN doc |->
        LET ms == SelectSeq(Sentences[doc[k]].matches,
                            LAMBDA m : m.type = type /\ m.pattern = p)
        IN  [j \in DOMAIN ms |->
                [type |-> type, pattern |-> p,
                 index |-> Starts(doc)[k] + ms[j].off, len |-> ms[j].len]]])

\* All matches of the patterns of a type, as a set.
TypeMatches(doc, type) ==
    UNION {{MatchAll(doc, type, p)[j] : j \in DOMAIN MatchAll(doc, type, p)} :
           p \in 1..CLAUSE_PATTERNS[type]}

\* The context window of a match: text.slice(contextStart, contextEnd),
\* then trimmed (a blank at either end is dropped).
ContextOf(doc, match) ==
    LET contextStart == Max(0, match.index - CONTEXT)
        contextEnd == Min(TextLength(doc), match.index + match.len + CONTEXT)
        lead == IF contextStart \in Blanks(doc) THEN 1 ELSE 0
        trail == IF (contextEnd - 1) \in Blanks(doc) THEN 1 ELSE 0
    IN  [contextStart |-> contextStart, contextEnd |-> contextEnd,
         from |-> contextStart + lead, to |-> contextEnd - trail,
         length |-> contextEnd - contextStart - lead - trail]

Inside(ctx, index, len) == ctx.from <= index /\ index + len <= ctx.to

\* lowerText.includes(keyword) on a context text.
ContextIncludes(doc, ctx, keyword) ==
    \E o \in TextKeywords(doc) : o.kw = keyword /\ Inside(ctx, o.index, o.len)

\* text.split(" ").filter(word => word.length > 2).length on a context
\* text: a word cut by the window counts with the part that is left.
ContextWords(doc, ctx) ==
    Cardinality({w \in TextWords(doc) :
                    Min(ctx.to, w[1] + w[2]) - Max(ctx.from, w[1]) > 2})

\* relevantWords of calculateConfidence: the matches of the type's
\* patterns in the context text.
RelevantWords(doc, ctx, type) ==
    Cardinality({m \in TypeMatches(doc, type) : Inside(ctx, m.index, m.len)})

\* Mutant of ConfidenceOf: the Math.min(0.98, ...) cap is missing.
ConfidenceOf_NoCap(relevantWords, contextWords, length) ==
    LET d == Max(contextWords, 10)
        x == 750 * d + 200 * relevantWords + Min(150, length) * d
    IN  (2 * x + 10 * d) \div (20 * d)

\* The arithmetic of calculateConfidence, in hundredths:
\*   Math.round(Math.min(0.98, 0.75 + relevantWords / Math.max(contextWords,
\*   10) * 0.2 + Math.min(0.15, length / 1000)) * 100) / 100.
\* x / (1000 * d) is the sum before the cap; Math.round(y) = floor(y + 1/2).
ConfidenceOf(relevantWords, contextWords, length) ==
    LET d == Max(contextWords, 10)
        x == 750 * d + 200 * relevantWords + Min(150, length) * d
    IN  IF x >= 980 * d THEN 98 ELSE (2 * x + 10 * d) \div (20 * d)

calculateConfidence(doc, ctx, clauseType) ==
    ConfidenceOf(RelevantWords(doc, ctx, clauseType), ContextWords(doc, ctx),
                 ctx.length)

\* Mutant of RiskCascade: a termination clause is high on the phrases
\* "immediate termination" and "without cause" instead of "immediate" and
\* "without notice".
RiskCascade_TerminationPhrases(doc, ctx, clauseType) ==
    LET has(kw) == ContextIncludes(doc, ctx, kw)
    IN  IF \E k \in DOMAIN RISK_KEYWORDS.high : has(RISK_KEYWORDS.high[k])
        THEN "high"
        ELSE IF \E k \in DOMAIN RISK_KEYWORDS.medium : has(RISK_KEYWORDS.medium[k])
        THEN "medium"
        ELSE IF clauseType = "termination"
                /\ (has("immediate termination") \/ has("without cause"))
        THEN "high"
        ELSE IF clauseType = "termination"
                /\ (has("30 days") \/ has("notice period"))
        THEN "medium"
        ELSE IF clauseType = "liability" /\ (has("unlimited") \/ has("no limit"))
        THEN "high"
        ELSE IF clauseType = "liability" /\ (has("indemnify") \/ has("damages"))
        THEN "medium"
        ELSE IF clauseType = "payment" /\ (has("penalty") \/ has("late fee"))
        THEN "medium"
        ELSE IF clauseType = "payment" /\ has("personal guarantee")
        THEN "high"
        ELSE "random"

\* Mutant of RiskCascade: the clause-type-specific triggers are missing, a
\* clause without a risk keyword goes to the random stages.
RiskCascade_KeywordsOnly(doc, ctx, clauseType) ==
    LET has(kw) == ContextIncludes(doc, ctx, kw)
    IN  IF \E k \in DOMAIN RISK_KEYWORDS.high : has(RISK_KEYWORDS.high[k])
        THEN "high"
        ELSE IF \E k \in DOMAIN RISK_KEYWORDS.medium : has(RISK_KEYWORDS.medium[k])
        THEN "medium"
        ELSE "random"

\* Mutant of RiskCascade: the heuristic of the clause type is asked before
\* the medium risk keywords.
RiskCascade_HeuristicFirst(doc, ctx, clauseType) ==
    LET has(kw) == ContextIncludes(doc, ctx, kw)
    IN  IF \E k \in DOMAIN RISK_KEYWORDS.high : has(RISK_KEYWORDS.high[k])
        THEN "high"
        ELSE IF clauseType = "termination"
                /\ (has("immediate") \/ has("without notice"))
        THEN "high"
        ELSE IF clauseType = "termination"
                /\ (has("30 days") \/ has("notice period"))
        THEN "medium"
        ELSE IF clauseType = "liability" /\ (has("unlimited") \/ has("no limit"))
        THEN "high"
        ELSE IF clauseType = "liability" /\ (has("indemnify") \/ has("damages"))
        THEN "medium"
        ELSE IF clauseType = "payment" /\ (has("penalty") \/ has("late fee"))
        THEN "medium"
        ELSE IF \E k \in DOMAIN RISK_KEYWORDS.medium : has(RISK_KEYWORDS.medium[k])
        THEN "medium"
        ELSE "random"

\* The first three stages of assessRisk of the classifier: "high",
\* "medium", or "random" when the level is left to Math.random().
RiskCascade(doc, ctx, clauseType) ==
    LET has(kw) == ContextIncludes(doc, ctx, kw)
    IN  IF \E k \in DOMAIN RISK_KEYWORDS.high : has(RISK_KEYWORDS.high[k])
        THEN "high"
        ELSE IF \E k \in DOMAIN RISK_KEYWORDS.medium : has(RISK_KEYWORDS.medium[k])
        THEN "medium"
        ELSE IF clauseType = "termination"
                /\ (has("immediate") \/ has("without notice"))
        THEN "high"
        ELSE IF clauseType = "termination"
                /\ (has("30 days") \/ has("notice period"))
        THEN "medium"
        ELSE IF clauseType = "liability" /\ (has("unlimited") \/ has("no limit"))
        THEN "high"
        ELSE IF clauseType = "liability" /\ (has("indemnify") \/ has("damages"))
        THEN "medium"
        ELSE IF clauseType = "payment" /\ (has("penalty") \/ has("late fee"))
        THEN "medium"
        ELSE IF clauseType = "payment" /\ has("personal guarantee")
        THEN "high"
        ELSE "random"

\* The random stages of assessRisk, with roll = Math.random() * 100.
RandomRisk(doc, ctx, roll) ==
    IF ContextIncludes(doc, ctx, "<complex>") /\ ctx.length > LONG_CLAUSE
    THEN IF roll > 60 THEN "medium" ELSE "low"
    ELSE IF roll < 10 THEN "high"
    ELSE IF roll < 40 THEN "medium"
    ELSE "low"

\* The matches of a type that classifyClause keeps (their context text has
\* at least 50 characters), in the order it pushes them.
KeptMatches(doc, type) ==
    SelectSeq(Flatten([p \in 1..CLAUSE_PATTERNS[type] |-> MatchAll(doc, type, p)]),
              LAMBDA m : ContextOf(doc, m).length >= MIN_CONTEXT)

\* All matches in the order classifyDocument collects them.
AllKeptMatches(doc) ==
    Flatten([t \in DOMAIN ClauseTypes |-> KeptMatches(doc, ClauseTypes[t])])

\* The clauses of the matches, in order; `drawn` counts the calls of
\* Math.random() so far, and the rolls are used in turn.
RECURSIVE ClausesOf(_, _, _, _)
ClausesOf(doc, matches, rolls, drawn) ==
    IF matches = <<>> THEN <<>>
    ELSE LET m == Head(matches)
             ctx == ContextOf(doc, m)
             fixed == RiskCascade(doc, ctx, m.type)
             roll == rolls[(drawn % Len(rolls)) + 1]
             clause == [type |-> m.type,
                        text |-> <<ctx.from, ctx.to>>,
                        confidence |-> calculateConfidence(doc, ctx, m.type),
                        startIndex |-> ctx.contextStart,
                        endIndex |-> ctx.contextEnd,
                        riskLevel |-> IF fixed = "random"
                                      THEN RandomRisk(doc, ctx, roll)
                                      ELSE fixed]
         IN  <<clause>> \o ClausesOf(doc, Tail(matches), rolls,
                                     IF fixed = "random" THEN drawn + 1 ELSE drawn)

Abs(x) == IF x < 0 THEN -x ELSE x

\* The filter of classifyDocument: a clause stays when it is the first of
\* the list with its type and a start offset less than 100 away from its
\* own.
RemoveDuplicates(self) ==
    LET findIndex(clause) ==
            CHOOSE j \in DOMAIN self :
                /\ Abs(self[j].startIndex - clause.startIndex) < DEDUP_DISTANCE
                /\ self[j].type = clause.type
                /\ \A h \in 1..(j - 1) :
                      ~(/\ Abs(self[h].startIndex - clause.startIndex) < DEDUP_DISTANCE
                        /\ self[h].type = clause.type)
        kept == SelectSeq([k \in DOMAIN self |-> k],
                          LAMBDA k : k = findIndex(self[k]))
    IN  [n \in DOMAIN kept |-> self[kept[n]]]

\* Mutant of SortByConfidence: the list stays in collection order.
SortByConfidence_CollectionOrder(cs) == cs

\* sort((a, b) => b.confidence - a.confidence): a stable sort.
RECURSIVE InsertByConfidence(_, _)
InsertByConfidence(x, sorted) ==
    IF sorted = <<>> THEN <<x>>
    ELSE IF Head(sorted).confidence - x.confidence < 0 THEN <<x>> \o sorted
    ELSE <<Head(sorted)>> \o InsertByConfidence(x, Tail(sorted))

RECURSIVE SortByConfidence(_)
SortByConfidence(cs) ==
    IF cs = <<>> THEN <<>>
    ELSE InsertByConfidence(cs[Len(cs)], SortByConfidence(SubSeq(cs, 1, Len(cs) - 1)))

\* Mutant of TopClauses: the list is not limited.
TopClauses_NoLimit(cs) == cs

\* slice(0, 20)
TopClauses(cs) == SubSeq(cs, 1, Min(Len(cs), MAX_CLAUSES))

CountRisk(cs, level) == Len(SelectSeq(cs, LAMBDA c : c.riskLevel = level))

\* MLClauseClassifier.classifyDocument.
\* Mutant of classifyDocument: a text without a clause is answered with
\* one low risk clause that spans the text.
classifyDocument_DefaultClause(doc, rolls) ==
    LET allClauses == ClausesOf(doc, AllKeptMatches(doc), rolls, 0)
        found == TopClauses(SortByConfidence(RemoveDuplicates(allClauses)))
        uniqueClauses ==
            IF found # <<>> THEN found
            ELSE << [type |-> "termination", text |-> <<0, TextLength(doc)>>,
                     confidence |-> 75, startIndex |-> 0,
                     endIndex |-> TextLength(doc), riskLevel |-> "low"] >>
    IN  [clauses |-> uniqueClauses,
         summary |-> [totalClauses |-> Len(uniqueClauses),
                      highRiskClauses |-> CountRisk(uniqueClauses, "high"),
                      mediumRiskClauses |-> CountRisk(uniqueClauses, "medium"),
                      lowRiskClauses |-> CountRisk(uniqueClauses, "low")],
         allClauses |-> allClauses]

classifyDocument(doc, rolls) ==
    LET allClauses == ClausesOf(doc, AllKeptMatches(doc), rolls, 0)
        uniqueClauses == TopClauses(SortByConfidence(RemoveDuplicates(allClauses)))
    IN  [clauses |-> uniqueClauses,
         summary |-> [totalClauses |-> Len(uniqueClauses),
                      highRiskClauses |-> CountRisk(uniqueClauses, "high"),
                      mediumRiskClauses |-> CountRisk(uniqueClauses, "medium"),
                      lowRiskClauses |-> CountRisk(uniqueClauses, "low")],
         allClauses |-> allClauses]

\* Math.random() * 100: one value for each outcome of the random stages.
RollValues == {5, 25, 70}
RollPatterns == [1..2 -> RollValues]

RECURSIVE Repeat(_, _)
Repeat(doc, n) == IF n = 0 THEN <<>> ELSE doc \o Repeat(doc, n - 1)

\* Documents beyond the bound: a long contract of repeated paragraphs
\* (more than 20 clauses), the same with a payment paragraph at its end,
\* a clause in a long formal context, and nearby
\* matches of one type with different contexts, at the head of a text
\* and behind a long paragraph.
ScenarioDocs ==
    {Repeat(<<"T", "N">>, 12), <<"F", "N", "F">>, <<"T", "G", "W", "F">>,
     <<"P", "P", "P">>, <<"F", "P", "P">>,
     Repeat(<<"T", "N">>, 12) \o <<"F", "P">>}

ClassifierInputs ==
    [doc : SeqsUpTo(SentenceIds, MaxSentences) \cup ScenarioDocs,
     rolls : RollPatterns]

InitClassifier ==
    /\ clInput \in ClassifierInputs
    /\ clResult = NoResult
    /\ clRerun = NoResult

\* A call of classifyDocument on the input.
ClassifyDocument ==
    /\ clResult = NoResult
    /\ clResult' = classifyDocument(clInput.doc, clInput.rolls)
    /\ UNCHANGED <<clInput, clRerun, uploadVars, riskVars, summarizerVars,
                 multilingualVars, routeVars, pythonVars,
                 speechVars>>

(***************************************************************************)
(* PART 4.  The client-side abstractive summarizer                         *)
(* (lib/client-side-abstractive.ts).                                       *)
(*                                                                         *)
(* A text is a sequence of sentences of a catalogue, each ended by "."     *)
(* and separated from the next by a blank.  Of each sentence the model     *)
(* knows what the summarizer's regular expressions and String.includes     *)
(* find in it: its trimmed length, whether it starts with 'whereof' or     *)
(* 'in witness', the theme counts of extractLegalThemes, the themes it     *)
(* mentions directly or by a legal pattern, the phrases, periods and       *)
(* party names preserveOriginalTerms takes from it (as the first sentence  *)
(* of the text, and as a later one, which starts with a blank), the        *)
(* number of legal keywords in it, the lengths of the relationships        *)
(* identifyRelationships finds in it, its first 20 characters in lower     *)
(* case, and the terms it includes in lower case.                          *)
(* A sentence of the text is denoted by its position in the text.          *)
(***************************************************************************)

\* Bound of the summarizer model.
MaxSummarySentences == 3    \* sentences of a text

\* "Pay now"
SummaryA ==
    [len |-> 7,
     formal |-> FALSE,
     themes |-> {},
     direct |-> {},
     pattern |-> {},
     legalFirst |-> <<>>,
     legalLater |-> <<>>,
     dates |-> <<>>,
     amounts |-> <<>>,
     percents |-> <<>>,
     periods |-> <<>>,
     parties |-> <<"Pay">>,
     keywords |-> 0,
     rels |-> {},
     prefix |-> "pay now",
     includes |-> {"Pay"},
     includesLater |-> {"Pay"}]

\* "ok then"
SummaryB ==
    [len |-> 7,
     formal |-> FALSE,
     themes |-> {},
     direct |-> {},
     pattern |-> {},
     legalFirst |-> <<>>,
     legalLater |-> <<>>,
     dates |-> <<>>,
     amounts |-> <<>>,
     percents |-> <<>>,
     periods |-> <<>>,
     parties |-> <<>>,
     keywords |-> 0,
     rels |-> {},
     prefix |-> "ok then",
     includes |-> {"The"},
     includesLater |-> {"The"}]

\* "Party shall pay"
SummaryC ==
    [len |-> 15,
     formal |-> FALSE,
     themes |-> {},
     direct |-> {},
     pattern |-> {},
     legalFirst |-> <<"Party shall pay">>,
     legalLater |-> <<" Party shall pay">>,
     dates |-> <<>>,
     amounts |-> <<>>,
     percents |-> <<>>,
     periods |-> <<>>,
     parties |-> <<"Party">>,
     keywords |-> 2,
     rels |-> {<<"obligation", 10>>},
     prefix |-> "party shall pay",
     includes |-> {"Pay", "Party shall pay", "Party"},
     includesLater |-> {"Pay", "Party shall pay", " Party shall pay", "Party"}]

\* "we met at noon today"
SummaryD ==
    [len |-> 20,
     formal |-> FALSE,
     themes |-> {},
     direct |-> {},
     pattern |-> {},
     legalFirst |-> <<>>,
     legalLater |-> <<>>,
     dates |-> <<>>,
     amounts |-> <<>>,
     percents |-> <<>>,
     periods |-> <<>>,
     parties |-> <<>>,
     keywords |-> 0,
     rels |-> {},
     prefix |-> "we met at noon today",
     includes |-> {},
     includesLater |-> {}]

\* "The tenant shall pay rent within 30 days"
SummaryE ==
    [len |-> 40,
     formal |-> FALSE,
     themes |-> {},
     direct |-> {},
     pattern |-> {},
     legalFirst |-> <<"The tenant shall pay rent within">>,
     legalLater |-> <<" The tenant shall pay rent within">>,
     dates |-> <<>>,
     amounts |-> <<>>,
     percents |-> <<>>,
     periods |-> <<"30 days">>,
     parties |-> <<"The">>,
     keywords |-> 1,
     rels |-> {<<"obligation", 30>>},
     prefix |-> "the tenant shall pay",
     includes |-> {"Pay", "The tenant shall pay rent within", "30 days",
                   "The", "In"},
     includesLater |-> {"Pay", "The tenant shall pay rent within",
                        " The tenant shall pay rent within", "30 days",
                        "The", "In"}]

\* "This contract covers payment of all fees by the client"
SummaryF ==
    [len |-> 54,
     formal |-> FALSE,
     themes |-> {<<"contract", 2>>, <<"payment", 2>>},
     direct |-> {"contract", "payment"},
     pattern |-> {},
     legalFirst |-> <<>>,
     legalLater |-> <<>>,
     dates |-> <<>>,
     amounts |-> <<>>,
     percents |-> <<>>,
     periods |-> <<>>,
     parties |-> <<"This">>,
     keywords |-> 1,
     rels |-> {},
     prefix |-> "this contract covers",
     includes |-> {"Pay", "The", "This"},
     includesLater |-> {"Pay", "The", "This"}]

\* "the weather was mild and the roads were quiet all week"
SummaryG ==
    [len |-> 54,
     formal |-> FALSE,
     themes |-> {},
     direct |-> {},
     pattern |-> {},
     legalFirst |-> <<>>,
     legalLater |-> <<>>,
     dates |-> <<>>,
     amounts |-> <<>>,
     percents |-> <<>>,
     periods |-> <<>>,
     parties |-> <<>>,
     keywords |-> 0,
     rels |-> {},
     prefix |-> "the weather was mild",
     includes |-> {"The"},
     includesLater |-> {"The"}]

\* "In witness whereof the parties have signed this agreement"
SummaryH ==
    [len |-> 57,
     formal |-> TRUE,
     themes |-> {},
     direct |-> {},
     pattern |-> {},
     legalFirst |-> <<>>,
     legalLater |-> <<>>,
     dates |-> <<>>,
     amounts |-> <<>>,
     percents |-> <<>>,
     periods |-> <<>>,
     parties |-> <<"In">>,
     keywords |-> 1,
     rels |-> {},
     prefix |-> "in witness whereof t",
     includes |-> {"The", "This", "In"},
     includesLater |-> {"The", "This", "In"}]

\* "our contract for the payment of goods puts a cap on liability and lets
\* each side bring a dispute about price, quality, delivery dates or
\* confidential notes before an agreed expert who hears both views"
SummaryI ==
    [len |-> 200,
     formal |-> FALSE,
     themes |-> {<<"contract", 2>>, <<"payment", 2>>, <<"liability", 2>>,
                 <<"confidential", 2>>, <<"dispute", 2>>},
     direct |-> {"contract", "payment", "liability", "confidential", "dispute"},
     pattern |-> {},
     legalFirst |-> <<>>,
     legalLater |-> <<>>,
     dates |-> <<>>,
     amounts |-> <<>>,
     percents |-> <<>>,
     periods |-> <<>>,
     parties |-> <<>>,
     keywords |-> 2,
     rels |-> {},
     prefix |-> "our contract for the",
     includes |-> {"Pay", "The", "In"},
     includesLater |-> {"Pay", "The", "In"}]

\* term.toLowerCase() of the terms of the sentences above.
TermLower ==
    {<<"Pay", "pay">>,
     <<"Party shall pay", "party shall pay">>,
     <<" Party shall pay", " party shall pay">>,
     <<"Party", "party">>,
     <<"The tenant shall pay rent within",
       "the tenant shall pay rent within">>,
     <<" The tenant shall pay rent within",
       " the tenant shall pay rent within">>,
     <<"30 days", "30 days">>,
     <<"The", "the">>,
     <<"This", "this">>,
     <<"In", "in">>}

\* The terms for which isImportantTerm is true.
ImportantTerms ==
    {"Party shall pay", " Party shall pay",
     "The tenant shall pay rent within", " The tenant shall pay rent within",
     "30 days"}

\* <<t, u>>: ` The document specifies ${t}.` includes u, in lower case.
AddedIncludes ==
    {<<"Pay", "Pay">>,
     <<"Pay", "The">>,
     <<"Party shall pay", "Pay">>,
     <<"Party shall pay", "Party shall pay">>,
     <<"Party shall pay", " Party shall pay">>,
     <<"Party shall pay", "Party">>,
     <<"Party shall pay", "The">>,
     <<" Party shall pay", "Pay">>,
     <<" Party shall pay", "Party shall pay">>,
     <<" Party shall pay", " Party shall pay">>,
     <<" Party shall pay", "Party">>,
     <<" Party shall pay", "The">>,
     <<"Party", "Party">>,
     <<"Party", "The">>,
     <<"The tenant shall pay rent within", "Pay">>,
     <<"The tenant shall pay rent within",
       "The tenant shall pay rent within">>,
     <<"The tenant shall pay rent within",
       " The tenant shall pay rent within">>,
     <<"The tenant shall pay rent within", "The">>,
     <<"The tenant shall pay rent within", "In">>,
     <<" The tenant shall pay rent within", "Pay">>,
     <<" The tenant shall pay rent within",
       "The tenant shall pay rent within">>,
     <<" The tenant shall pay rent within",
       " The tenant shall pay rent within">>,
     <<" The tenant shall pay rent within", "The">>,
     <<" The tenant shall pay rent within", "In">>,
     <<"30 days", "30 days">>,
     <<"30 days", "The">>,
     <<"The", "The">>,
     <<"This", "The">>,
     <<"This", "This">>,
     <<"In", "The">>,
     <<"In", "In">>}

SummarySentences ==
    [A |-> SummaryA, B |-> SummaryB, C |-> SummaryC, D |-> SummaryD,
     E |-> SummaryE, F |-> SummaryF, G |-> SummaryG, H |-> SummaryH,
     I |-> SummaryI]

\* sentence.toLowerCase().split(/\s+/) of the sentences above, as sets.
SummaryWords ==
    [A |-> {"now", "pay"},
     B |-> {"ok", "then"},
     C |-> {"party", "pay", "shall"},
     D |-> {"at", "met", "noon", "today", "we"},
     E |-> {"30", "days", "pay", "rent", "shall", "tenant", "the", "within"},
     F |-> {"all", "by", "client", "contract", "covers", "fees", "of",
            "payment", "the", "this"},
     G |-> {"all", "and", "mild", "quiet", "roads", "the", "was", "weather",
            "week", "were"},
     H |-> {"agreement", "have", "in", "parties", "signed", "the", "this",
            "whereof", "witness"},
     I |-> {"a", "about", "agreed", "an", "and", "before", "both", "bring",
            "cap", "confidential", "contract", "dates", "delivery", "dispute",
            "each", "expert", "for", "goods", "hears", "lets", "liability",
            "notes", "of", "on", "or", "our", "payment", "price,", "puts",
            "quality,", "side", "the", "views", "who"}]

SummaryIds == DOMAIN SummarySentences

\* The keys of legalPatterns, in insertion order.
LEGAL_THEMES ==
    <<"contract", "payment", "termination", "liability", "confidential",
      "dispute", "jurisdiction">>

\* The relationship types, in the order identifyRelationships sets them.
RELATIONSHIP_TYPES == <<"conditional", "obligation", "prohibition", "permission">>

MIN_SENTENCE == 15          \* extractOriginalSentences: length > 15
MIN_FALLBACK_SENTENCE == 20 \* fallbackSummary: length > 20
MIN_KEY_POINTS == 5         \* extractKeyPointsFromOriginal pads to 5
MAX_KEY_POINTS == 8         \* keyPoints.slice(0, 8)
MAX_SUMMARY_LENGTH == 1500  \* terms are added to shorter summaries only

Sentence(text, i) == SummarySentences[text[i]]

Positions(text) == [i \in 1..Len(text) |-> i]

FirstN(s, n) == SubSeq(s, 1, Min(Len(s), n))

\* text.length
TextChars(text) ==
    IF text = <<>> THEN 0
    ELSE SumSeq([i \in DOMAIN text |-> Sentence(text, i).len + 1]) + Len(text) - 1

\* sentence.toLowerCase().includes(term.toLowerCase()) on a trimmed sentence.
SentenceIncludes(text, i, term) == term \in Sentence(text, i).includes

\* The same on a sentence as text.split(/[.!?]+/) yields it.
RawIncludes(text, i, term) ==
    term \in (IF i = 1 THEN Sentence(text, i).includes
              ELSE Sentence(text, i).includesLater)

\* term.toLowerCase()
toLower(term) == (CHOOSE p \in TermLower : p[1] = term)[2]

extractOriginalSentences(text) ==
    SelectSeq(Positions(text),
              LAMBDA i : Sentence(text, i).len > MIN_SENTENCE
                         /\ ~Sentence(text, i).formal)

\* The count extractLegalThemes gives a theme.
ThemeCount(text, theme) ==
    SumSeq([i \in DOMAIN text |->
        IF \E p \in Sentence(text, i).themes : p[1] = theme
        THEN (CHOOSE p \in Sentence(text, i).themes : p[1] = theme)[2]
        ELSE 0])

\* The keys of the map extractLegalThemes returns, in order.
extractLegalThemes(text) ==
    SelectSeq(LEGAL_THEMES, LAMBDA theme : ThemeCount(text, theme) > 0)

\* The lengths of the matches identifyRelationships finds for a type.
RelationshipsOf(text, type) ==
    Flatten([i \in DOMAIN text |->
        IF \E p \in Sentence(text, i).rels : p[1] = type
        THEN <<(CHOOSE p \in Sentence(text, i).rels : p[1] = type)[2]>>
        ELSE <<>>])

\* The keys of the map identifyRelationships returns, in order.
identifyRelationships(text) ==
    SelectSeq(RELATIONSHIP_TYPES, LAMBDA type : RelationshipsOf(text, type) # <<>>)

preserveOriginalTerms(text) ==
    LET all(field) == Flatten([i \in DOMAIN text |-> Sentence(text, i)[field]])
        phrases == Flatten([i \in DOMAIN text |->
                       IF i = 1 THEN Sentence(text, i).legalFirst
                       ELSE Sentence(text, i).legalLater])
    IN  FirstN(Unique(phrases \o all("dates") \o all("amounts")
                      \o all("percents") \o all("periods")
                      \o FirstN(all("parties"), 10)), 20)

\* The forEach of generateSectionSummary: the terms it appends to the
\* first sentence, each unless the summary so far includes it.
RECURSIVE AppendTerms(_, _, _, _)
AppendTerms(text, i, terms, added) ==
    IF terms = <<>> THEN added
    ELSE LET term == Head(terms)
             included ==
                 \/ RawIncludes(text, i, term)
                 \/ \E k \in DOMAIN added : <<added[k], term>> \in AddedIncludes
         IN  AppendTerms(text, i, Tail(terms),
                         IF included THEN added ELSE Append(added, term))

\* generateSectionSummary: sentences[0] is undefined for an empty list, and
\* summary.toLowerCase() then throws a TypeError for the first term.
generateSectionSummary(text, sentences, relevantTerms) ==
    LET terms == FirstN(relevantTerms, 3)
    IN  IF sentences = <<>>
        THEN IF terms = <<>> THEN [kind |-> "undefined"]
             ELSE [kind |-> "TypeError"]
        ELSE [kind |-> "text", sentence |-> sentences[1],
              added |-> AppendTerms(text, sentences[1], terms, <<>>)]

\* text.split(/[.!?]+/).filter(s => s.trim().length > 15)
LongSentences(text) ==
    SelectSeq(Positions(text), LAMBDA i : Sentence(text, i).len > MIN_SENTENCE)

createThemeSection(text, theme, originalTerms) ==
    LET themeSentences ==
            SelectSeq(LongSentences(text),
                      LAMBDA i : theme \in Sentence(text, i).direct
                                           \cup Sentence(text, i).pattern)
        relevantTerms ==
            SelectSeq(originalTerms,
                      LAMBDA term : \E k \in DOMAIN themeSentences :
                                       RawIncludes(text, themeSentences[k], term))
    IN  IF themeSentences = <<>> THEN [kind |-> "null"]
        ELSE [kind |-> "section", type |-> theme,
              content |-> generateSectionSummary(text, themeSentences, relevantTerms),
              originalQuotes |-> FirstN(themeSentences, 3),
              importance |-> IF Len(themeSentences) > 2 THEN "high"
                             ELSE IF Len(themeSentences) > 1 THEN "medium"
                             ELSE "low"]

createGeneralSection(text, originalTerms) ==
    LET keySentences == FirstN(LongSentences(text), 5)
    IN  [kind |-> "section", type |-> "general",
         content |-> generateSectionSummary(text, keySentences, originalTerms),
         originalQuotes |-> FirstN(keySentences, 3),
         importance |-> "medium"]

importanceOrder == [high |-> 3, medium |-> 2, low |-> 1]

RECURSIVE InsertByImportance(_, _)
InsertByImportance(x, sorted) ==
    IF sorted = <<>> THEN <<x>>
    ELSE IF importanceOrder[Head(sorted).importance]
            - importanceOrder[x.importance] < 0
    THEN <<x>> \o sorted
    ELSE <<Head(sorted)>> \o InsertByImportance(x, Tail(sorted))

RECURSIVE SortByImportance(_)
SortByImportance(ss) ==
    IF ss = <<>> THEN <<>>
    ELSE InsertByImportance(ss[Len(ss)],
                            SortByImportance(SubSeq(ss, 1, Len(ss) - 1)))

\* createDetailedSections: the sections, or the TypeError of the general
\* section's summary.
createDetailedSections(text, themes, originalTerms) ==
    LET themed == Flatten([k \in DOMAIN themes |->
                     LET section == createThemeSection(text, themes[k], originalTerms)
                     IN  IF section.kind = "null" THEN <<>> ELSE <<section>>])
        general == createGeneralSection(text, originalTerms)
    IN  IF themed # <<>>
        THEN [kind |-> "sections", sections |-> SortByImportance(themed)]
        ELSE IF general.content.kind = "TypeError" THEN [kind |-> "TypeError"]
        ELSE [kind |-> "sections", sections |-> <<general>>]

\* scoreSentenceImportance, times 20 (the length term is length / 20).
scoreSentenceImportance(text, i, themes, originalTerms) ==
    LET s == Sentence(text, i)
        themeScore == SumSeq([k \in DOMAIN themes |->
                          IF themes[k] \in s.direct
                          THEN ThemeCount(text, themes[k]) * 2 ELSE 0])
        termScore == SumSeq([k \in DOMAIN originalTerms |->
                          IF SentenceIncludes(text, i, originalTerms[k])
                          THEN 3 ELSE 0])
    IN  20 * (themeScore + termScore + 2 * s.keywords) + Min(s.len, 100)

\* sort((a, b) => b.score - a.score): a stable sort.
RECURSIVE InsertByScore(_, _)
InsertByScore(x, sorted) ==
    IF sorted = <<>> THEN <<x>>
    ELSE IF Head(sorted).score - x.score < 0 THEN <<x>> \o sorted
    ELSE <<Head(sorted)>> \o InsertByScore(x, Tail(sorted))

RECURSIVE SortByScore(_)
SortByScore(ss) ==
    IF ss = <<>> THEN <<>>
    ELSE InsertByScore(ss[Len(ss)], SortByScore(SubSeq(ss, 1, Len(ss) - 1)))

\* The sentences in the order of their scores.
Ranked(text, sentences, themes, originalTerms) ==
    LET scored == [k \in DOMAIN sentences |->
                      [index |-> sentences[k],
                       score |-> scoreSentenceImportance(text, sentences[k],
                                                         themes, originalTerms)]]
        sorted == SortByScore(scored)
    IN  [k \in DOMAIN sorted |-> sorted[k].index]

getLegalEnhancement(theme) ==
    LET enhancements ==
            [contract |-> "binding legal obligations",
             payment |-> "financial compensation arrangements",
             termination |-> "ending provisions",
             liability |-> "legal responsibilities",
             confidential |-> "privacy protections",
             dispute |-> "conflict resolution mechanisms",
             jurisdiction |-> "governing law provisions"]
    IN  IF theme \in DOMAIN enhancements THEN enhancements[theme]
        ELSE "legal provisions"

\* The length of `, establishing ${enhancement}`.
EnhancementLength(enhancement) ==
    LET lengths ==
            [e \in {"binding legal obligations", "financial compensation arrangements",
                    "ending provisions", "legal responsibilities",
                    "privacy protections", "conflict resolution mechanisms",
                    "governing law provisions", "legal provisions"} |->
                CASE e = "binding legal obligations" -> 25
                  [] e = "financial compensation arrangements" -> 35
                  [] e = "ending provisions" -> 17
                  [] e = "legal responsibilities" -> 22
                  [] e = "privacy protections" -> 19
                  [] e = "conflict resolution mechanisms" -> 30
                  [] e = "governing law provisions" -> 24
                  [] e = "legal provisions" -> 16]
    IN  IF enhancement = "" THEN 0 ELSE 15 + lengths[enhancement]

\* The lengths of the transitions of the selected sentences and of the
\* remaining sentences.
TOP_TRANSITIONS == <<12, 13, 12, 9, 32, 32, 34, 32>>
REMAINING_TRANSITIONS == <<13, 9, 27, 23>>

\* The loop of createSummaryFromOriginalSentences over topSentences, from
\* its k-th round on; acc holds summary (as pieces), its length, usedTerms.
RECURSIVE ComposeTop(_, _, _, _, _, _)
ComposeTop(text, top, k, themes, originalTerms, acc) ==
    IF k > Len(top) THEN acc
    ELSE LET i == top[k]
             sentenceThemes ==
                 SelectSeq(themes, LAMBDA theme : theme \in Sentence(text, i).direct)
             candidate == IF sentenceThemes = <<>> THEN ""
                          ELSE getLegalEnhancement(sentenceThemes[1])
             enhancement == IF candidate \in acc.usedTerms THEN "" ELSE candidate
             transition == TOP_TRANSITIONS[Min(k - 1, Len(TOP_TRANSITIONS))]
             length == Sentence(text, i).len + EnhancementLength(enhancement)
             included == {toLower(originalTerms[n]) : n \in
                             {m \in DOMAIN originalTerms :
                                 SentenceIncludes(text, i, originalTerms[m])}}
         IN  ComposeTop(text, top, k + 1, themes, originalTerms,
                 [pieces |-> Append(acc.pieces,
                                 [kind |-> "sentence", index |-> i,
                                  enhancement |-> enhancement]),
                  length |-> IF k = 1 THEN length
                             ELSE acc.length + 1 + transition + 1 + length,
                  usedTerms |-> acc.usedTerms \cup included
                                \cup (IF enhancement = "" THEN {} ELSE {enhancement})])

\* The length added by the remaining sentences.
RECURSIVE RemainingLength(_, _, _)
RemainingLength(text, remaining, k) ==
    IF k > Len(remaining) THEN 0
    ELSE 1 + REMAINING_TRANSITIONS[Min(k, Len(REMAINING_TRANSITIONS))] + 1
         + Sentence(text, remaining[k]).len
         + RemainingLength(text, remaining, k + 1)

\* createSummaryFromOriginalSentences: the summary as its pieces.  No
\* piece holds ". ", so the summary has less than 10 lines and the
\* additional content, which is never empty, is appended.
createSummaryFromOriginalSentences(text, originalSentences, themes, originalTerms) ==
    IF originalSentences = <<>> THEN <<[kind |-> "fixed"]>>
    ELSE
    LET ranked == FirstN(Ranked(text, originalSentences, themes, originalTerms),
                         Min(8, Len(originalSentences)))
        inTop(i) == \E k \in DOMAIN ranked : ranked[k] = i
        topSentences == SelectSeq(originalSentences, inTop)
        composed == ComposeTop(text, topSentences, 1, themes, originalTerms,
                               [pieces |-> <<>>, length |-> 0, usedTerms |-> {}])
        remainingSentences ==
            FirstN(SelectSeq(originalSentences,
                      LAMBDA i : /\ ~inTop(i)
                                 /\ Sentence(text, i).len > 20
                                 /\ Sentence(text, i).prefix \notin composed.usedTerms),
                   4)
        length == composed.length + RemainingLength(text, remainingSentences, 1)
        unusedImportantTerms ==
            SelectSeq(originalTerms,
                      LAMBDA term : /\ toLower(term) \notin composed.usedTerms
                                    /\ term \in ImportantTerms)
        uncoveredThemes ==
            SelectSeq(themes, LAMBDA theme : theme \notin composed.usedTerms)
    IN  composed.pieces
        \o [k \in DOMAIN remainingSentences |->
               [kind |-> "remaining", index |-> remainingSentences[k]]]
        \o (IF unusedImportantTerms # <<>> /\ length < MAX_SUMMARY_LENGTH
            THEN <<[kind |-> "terms", terms |-> FirstN(unusedImportantTerms, 5)]>>
            ELSE <<>>)
        \o <<[kind |-> "additional", themes |-> FirstN(uncoveredThemes, 3)]>>

\* The key points the relationships add, in the order of the types.
RECURSIVE RelationshipPoints(_, _, _)
RelationshipPoints(text, types, keyPoints) ==
    IF types = <<>> THEN keyPoints
    ELSE LET rels == RelationshipsOf(text, Head(types))
         IN  RelationshipPoints(text, Tail(types),
                 IF Len(rels) > 0 /\ Len(keyPoints) < MAX_KEY_POINTS /\ rels[1] < 100
                 THEN Append(keyPoints, [kind |-> "relationship", type |-> Head(types)])
                 ELSE keyPoints)

\* while (keyPoints.length < 5) keyPoints.push(filler)
PadKeyPoints(keyPoints) ==
    keyPoints \o [k \in 1..(MIN_KEY_POINTS - Len(keyPoints)) |-> [kind |-> "filler"]]

extractKeyPointsFromOriginal(text, originalSentences, themes, relationships) ==
    LET topSentences == FirstN(Ranked(text, originalSentences, themes, <<>>), 6)
        fromSentences ==
            [k \in DOMAIN topSentences |->
                [kind |-> IF k - 1 < 3 THEN "sentence" ELSE "shortened",
                 index |-> topSentences[k]]]
    IN  FirstN(PadKeyPoints(RelationshipPoints(text, relationships, fromSentences)),
               MAX_KEY_POINTS)

\* fallbackSummary: the summary is the first three sentences of more than
\* 20 characters joined by ". ", and a final ".".
BASE_CONFIDENCE == 50      \* let confidence = 0.5, in hundredths
CONFIDENCE_STEP == 10      \* confidence += 0.1
MAX_CONFIDENCE == 85       \* Math.min(confidence, 0.85)
FALLBACK_CONFIDENCE == 60  \* fallbackSummary: confidence: 0.6
LONG_AVERAGE == 50         \* avgSentenceLength > 50
LONGER_AVERAGE == 80       \* avgSentenceLength > 80
MANY_WORDS == 30           \* uniqueWords > 30

\* new Set(sentences.join(' ').toLowerCase().split(/\s+/)).size: the empty
\* string splits into one empty word.
UniqueWords(text, sentences) ==
    IF sentences = <<>> THEN 1
    ELSE Cardinality(UNION {SummaryWords[text[sentences[k]]] : k \in DOMAIN sentences})

\* Mutant of calculateConfidenceOfSummary: the cap of 0.85 is missing.
calculateConfidenceOfSummary_NoCap(text, themes, sentences) ==
    LET total == SumSeq([k \in DOMAIN sentences |-> Sentence(text, sentences[k]).len])
        averageAbove(n) == sentences # <<>> /\ total > n * Len(sentences)
    IN  BASE_CONFIDENCE
        + (IF Len(themes) > 0 THEN CONFIDENCE_STEP ELSE 0)
        + (IF Len(themes) > 2 THEN CONFIDENCE_STEP ELSE 0)
        + (IF averageAbove(LONG_AVERAGE) THEN CONFIDENCE_STEP ELSE 0)
        + (IF averageAbove(LONGER_AVERAGE) THEN CONFIDENCE_STEP ELSE 0)
        + (IF UniqueWords(text, sentences) > MANY_WORDS THEN CONFIDENCE_STEP ELSE 0)

\* calculateConfidence of the summarizer, in hundredths.  avgSentenceLength
\* is total / sentences.length: NaN for no sentence, and a comparison
\* with NaN is false.
calculateConfidenceOfSummary(text, themes, sentences) ==
    LET total == SumSeq([k \in DOMAIN sentences |-> Sentence(text, sentences[k]).len])
        averageAbove(n) == sentences # <<>> /\ total > n * Len(sentences)
        confidence ==
            BASE_CONFIDENCE
            + (IF Len(themes) > 0 THEN CONFIDENCE_STEP ELSE 0)
            + (IF Len(themes) > 2 THEN CONFIDENCE_STEP ELSE 0)
            + (IF averageAbove(LONG_AVERAGE) THEN CONFIDENCE_STEP ELSE 0)
            + (IF averageAbove(LONGER_AVERAGE) THEN CONFIDENCE_STEP ELSE 0)
            + (IF UniqueWords(text, sentences) > MANY_WORDS THEN CONFIDENCE_STEP ELSE 0)
    IN  Min(confidence, MAX_CONFIDENCE)

fallbackSummary(text) ==
    LET sentences == SelectSeq(Positions(text),
                         LAMBDA i : Sentence(text, i).len > MIN_FALLBACK_SENTENCE)
        first == FirstN(sentences, 3)
    IN  [summary |-> [k \in DOMAIN first |-> [kind |-> "raw", index |-> first[k]]]
                     \o <<[kind |-> "period"]>>,
         keyPoints |-> [k \in DOMAIN first |-> [kind |-> "sentence", index |-> first[k]]],
         confidence |-> FALLBACK_CONFIDENCE,
         method |-> "rule-based",
         originalTermsPreserved |-> <<>>,
         detailedSections |-> <<>>]

\* generateAbstractiveSummary: the try block, and fallbackSummary when
\* createDetailedSections throws.
generateAbstractiveSummary(text) ==
    LET originalSentences == extractOriginalSentences(text)
        themes == extractLegalThemes(text)
        relationships == identifyRelationships(text)
        originalTerms == preserveOriginalTerms(text)
        detailedSections == createDetailedSections(text, themes, originalTerms)
    IN  IF detailedSections.kind = "TypeError" THEN fallbackSummary(text)
        ELSE [summary |-> createSummaryFromOriginalSentences(
                              text, originalSentences, themes, originalTerms),
              keyPoints |-> extractKeyPointsFromOriginal(
                                text, originalSentences, themes, relationships),
              confidence |-> calculateConfidenceOfSummary(
                                 text, themes, originalSentences),
              method |-> "hybrid",
              originalTermsPreserved |-> originalTerms,
              detailedSections |-> detailedSections.sections]

SummarizerInputs == [text : SeqsUpTo(SummaryIds, MaxSummarySentences)]

InitSummarizer ==
    /\ smInput \in SummarizerInputs
    /\ smResult = NoResult

\* A call of generateAbstractiveSummary on the input.
Summarize ==
    /\ smResult = NoResult
    /\ smResult' = generateAbstractiveSummary(smInput.text)
    /\ UNCHANGED <<smInput, uploadVars, riskVars, classifierVars,
                 multilingualVars, routeVars, pythonVars,
                 speechVars>>

(***************************************************************************)
(* PART 5.  The analysis of a classified document: the classification is   *)
(* run on a text, possibly a second time, and the assess-risk route is     *)
(* called with the classification result and the text                      *)
(* (api/assess-risk, the document view's loadRiskAssessment).              *)
(*                                                                         *)
(* For the risk engine the text of a catalogue document is the sequence    *)
(* of its words and punctuation marks; the text of a clause is what lies   *)
(* entirely in its context window (the pieces of words a window cuts are   *)
(* part of no phrase the engine looks for).                                *)
(***************************************************************************)

\* Bound of the analysis model.
MaxAnalysisSentences == 2       \* sentences of an analysed document

\* The words and punctuation marks of the catalogue sentences.
SentenceTokens ==
    [T |-> << [w |-> "This", off |-> 0, len |-> 4],
             [w |-> "agreement", off |-> 5, len |-> 9],
             [w |-> "shall", off |-> 15, len |-> 5],
             [w |-> "be", off |-> 21, len |-> 2],
             [w |-> "terminated", off |-> 24, len |-> 10],
             [w |-> "immediately", off |-> 35, len |-> 11],
             [w |-> "without", off |-> 47, len |-> 7],
             [w |-> "notice", off |-> 55, len |-> 6],
             [w |-> ".", off |-> 61, len |-> 1] >>,
     L |-> << [w |-> "The", off |-> 0, len |-> 3],
             [w |-> "employee", off |-> 4, len |-> 8],
             [w |-> "shall", off |-> 13, len |-> 5],
             [w |-> "be", off |-> 19, len |-> 2],
             [w |-> "liable", off |-> 22, len |-> 6],
             [w |-> "for", off |-> 29, len |-> 3],
             [w |-> "unlimited", off |-> 33, len |-> 9],
             [w |-> "damages", off |-> 43, len |-> 7],
             [w |-> ".", off |-> 50, len |-> 1] >>,
     N |-> << [w |-> "Each", off |-> 0, len |-> 4],
             [w |-> "party", off |-> 5, len |-> 5],
             [w |-> "shall", off |-> 11, len |-> 5],
             [w |-> "keep", off |-> 17, len |-> 4],
             [w |-> "the", off |-> 22, len |-> 3],
             [w |-> "confidential", off |-> 26, len |-> 12],
             [w |-> "records", off |-> 39, len |-> 7],
             [w |-> "of", off |-> 47, len |-> 2],
             [w |-> "the", off |-> 50, len |-> 3],
             [w |-> "other", off |-> 54, len |-> 5],
             [w |-> "party", off |-> 60, len |-> 5],
             [w |-> "secret", off |-> 66, len |-> 6],
             [w |-> ".", off |-> 72, len |-> 1] >>,
     W |-> << [w |-> "Either", off |-> 0, len |-> 6],
             [w |-> "party", off |-> 7, len |-> 5],
             [w |-> "may", off |-> 13, len |-> 3],
             [w |-> "terminate", off |-> 17, len |-> 9],
             [w |-> "this", off |-> 27, len |-> 4],
             [w |-> "agreement", off |-> 32, len |-> 9],
             [w |-> "immediately", off |-> 42, len |-> 11],
             [w |-> "upon", off |-> 54, len |-> 4],
             [w |-> "written", off |-> 59, len |-> 7],
             [w |-> "notice", off |-> 67, len |-> 6],
             [w |-> ".", off |-> 73, len |-> 1] >>,
     H |-> << [w |-> "The", off |-> 0, len |-> 3],
             [w |-> "license", off |-> 4, len |-> 7],
             [w |-> "is", off |-> 12, len |-> 2],
             [w |-> "perpetual", off |-> 15, len |-> 9],
             [w |-> "and", off |-> 25, len |-> 3],
             [w |-> "irrevocable", off |-> 29, len |-> 11],
             [w |-> "at", off |-> 41, len |-> 2],
             [w |-> "the", off |-> 44, len |-> 3],
             [w |-> "sole", off |-> 48, len |-> 4],
             [w |-> "discretion", off |-> 53, len |-> 10],
             [w |-> "of", off |-> 64, len |-> 2],
             [w |-> "the", off |-> 67, len |-> 3],
             [w |-> "owner", off |-> 71, len |-> 5],
             [w |-> ".", off |-> 76, len |-> 1] >>,
     P |-> << [w |-> "A", off |-> 0, len |-> 1],
             [w |-> "late", off |-> 2, len |-> 4],
             [w |-> "fee", off |-> 7, len |-> 3],
             [w |-> "and", off |-> 11, len |-> 3],
             [w |-> "interest", off |-> 15, len |-> 8],
             [w |-> "apply", off |-> 24, len |-> 5],
             [w |-> "to", off |-> 30, len |-> 2],
             [w |-> "each", off |-> 33, len |-> 4],
             [w |-> "unpaid", off |-> 38, len |-> 6],
             [w |-> "invoice", off |-> 45, len |-> 7],
             [w |-> ",", off |-> 52, len |-> 1],
             [w |-> "salary", off |-> 54, len |-> 6],
             [w |-> "payment", off |-> 61, len |-> 7],
             [w |-> "or", off |-> 69, len |-> 2],
             [w |-> "retainer", off |-> 72, len |-> 8],
             [w |-> ".", off |-> 80, len |-> 1] >>,
     G |-> << [w |-> "The", off |-> 0, len |-> 3],
             [w |-> "sky", off |-> 4, len |-> 3],
             [w |-> "is", off |-> 8, len |-> 2],
             [w |-> "blue", off |-> 11, len |-> 4],
             [w |-> "and", off |-> 16, len |-> 3],
             [w |-> "the", off |-> 20, len |-> 3],
             [w |-> "grass", off |-> 24, len |-> 5],
             [w |-> "is", off |-> 30, len |-> 2],
             [w |-> "green", off |-> 33, len |-> 5],
             [w |-> "along", off |-> 39, len |-> 5],
             [w |-> "the", off |-> 45, len |-> 3],
             [w |-> "river", off |-> 49, len |-> 5],
             [w |-> "bank", off |-> 55, len |-> 4],
             [w |-> ".", off |-> 59, len |-> 1] >>,
     F |-> << [w |-> "The", off |-> 0, len |-> 3],
             [w |-> "sky", off |-> 4, len |-> 3],
             [w |-> "is", off |-> 8, len |-> 2],
             [w |-> "blue", off |-> 11, len |-> 4],
             [w |-> "and", off |-> 16, len |-> 3],
             [w |-> "the", off |-> 20, len |-> 3],
             [w |-> "grass", off |-> 24, len |-> 5],
             [w |-> "is", off |-> 30, len |-> 2],
             [w |-> "green", off |-> 33, len |-> 5],
             [w |-> "along", off |-> 39, len |-> 5],
             [w |-> "the", off |-> 45, len |-> 3],
             [w |-> "river", off |-> 49, len |-> 5],
             [w |-> "bank", off |-> 55, len |-> 4],
             [w |-> ",", off |-> 59, len |-> 1],
             [w |-> "and", off |-> 61, len |-> 3],
             [w |-> "the", off |-> 65, len |-> 3],
             [w |-> "old", off |-> 69, len |-> 3],
             [w |-> "stone", off |-> 73, len |-> 5],
             [w |-> "bridge", off |-> 79, len |-> 6],
             [w |-> "stands", off |-> 86, len |-> 6],
             [w |-> "where", off |-> 93, len |-> 5],
             [w |-> "the", off |-> 99, len |-> 3],
             [w |-> "road", off |-> 103, len |-> 4],
             [w |-> "bends", off |-> 108, len |-> 5],
             [w |-> "toward", off |-> 114, len |-> 6],
             [w |-> "the", off |-> 121, len |-> 3],
             [w |-> "hills", off |-> 125, len |-> 5],
             [w |-> ",", off |-> 130, len |-> 1],
             [w |-> "and", off |-> 132, len |-> 3],
             [w |-> "the", off |-> 136, len |-> 3],
             [w |-> "wind", off |-> 140, len |-> 4],
             [w |-> "moves", off |-> 145, len |-> 5],
             [w |-> "slowly", off |-> 151, len |-> 6],
             [w |-> "over", off |-> 158, len |-> 4],
             [w |-> "the", off |-> 163, len |-> 3],
             [w |-> "open", off |-> 167, len |-> 4],
             [w |-> "fields", off |-> 172, len |-> 6],
             [w |-> "until", off |-> 179, len |-> 5],
             [w |-> "the", off |-> 185, len |-> 3],
             [w |-> "sun", off |-> 189, len |-> 3],
             [w |-> "goes", off |-> 193, len |-> 4],
             [w |-> "down", off |-> 198, len |-> 4],
             [w |-> "and", off |-> 203, len |-> 3],
             [w |-> "the", off |-> 207, len |-> 3],
             [w |-> "stars", off |-> 211, len |-> 5],
             [w |-> "come", off |-> 217, len |-> 4],
             [w |-> "out", off |-> 222, len |-> 3],
             [w |-> "again", off |-> 226, len |-> 5],
             [w |-> ".", off |-> 231, len |-> 1] >>]

\* The words of the document text, each with its index in the text.
DocumentTokens(doc) ==
    Flatten([k \in DOMAIN doc |->
        [j \in DOMAIN SentenceTokens[doc[k]] |->
            [w |-> SentenceTokens[doc[k]][j].w,
             index |-> Starts(doc)[k] + SentenceTokens[doc[k]][j].off,
             len |-> SentenceTokens[doc[k]][j].len]]])

\* text.substring(from, to) in the words the risk engine reads.
TextBetween(doc, from, to) ==
    LET inside == SelectSeq(DocumentTokens(doc),
                     LAMBDA t : from <= t.index /\ t.index + t.len <= to)
    IN  [k \in DOMAIN inside |-> inside[k].w]

DocumentText(doc) == TextBetween(doc, 0, TextLength(doc))

\* The ClassificationResult as the risk engine reads it.
ClassificationOf(doc, result) ==
    [clauses |-> [k \in DOMAIN result.clauses |->
                    [type |-> result.clauses[k].type,
                     riskLevel |-> result.clauses[k].riskLevel,
                     confidence |-> result.clauses[k].confidence,
                     text |-> TextBetween(doc, result.clauses[k].text[1],
                                          result.clauses[k].text[2])]],
     summary |-> result.summary]

\* POST of api/assess-risk.  A request is malformed (request.json()
\* raises) or carries a body; a classification result without clauses
\* makes the engine raise.
AssessRiskPOST(request) ==
    IF request.kind = "malformed"
    THEN [status |-> 500, error |-> "Failed to assess risk"]
    ELSE IF request.classificationResult = NoResult \/ request.documentText = <<>>
    THEN [status |-> 400,
          error |-> "Classification result and document text are required"]
    ELSE IF "clauses" \notin DOMAIN request.classificationResult
    THEN [status |-> 500, error |-> "Failed to assess risk"]
    ELSE [status |-> 200, success |-> TRUE,
          riskAssessment |-> assessRisk(request.classificationResult,
                                        request.documentText)]

\* The sentences analysed documents are made of, and the documents.
AnalysisIds == {"T", "L", "N", "F"}
AnalysisDocs ==
    SeqsUpTo(AnalysisIds, MaxAnalysisSentences) \cup {<<"F", "N", "F">>, <<"W", "H">>}

AnalysisInputs == [doc : AnalysisDocs, rolls : RollPatterns]

InitAnalysis ==
    /\ clInput \in AnalysisInputs
    /\ clResult = NoResult
    /\ clRerun = NoResult

\* A second call of classifyDocument on the same text.
ClassifyAgain(rolls) ==
    /\ clResult # NoResult
    /\ clRerun = NoResult
    /\ clRerun' = [rolls |-> rolls, result |-> classifyDocument(clInput.doc, rolls)]
    /\ UNCHANGED <<clInput, clResult, uploadVars, riskVars, summarizerVars,
                 multilingualVars, routeVars, pythonVars,
                 speechVars>>

\* loadRiskAssessment: the assess-risk route is called with the stored
\* classification result and the extracted text.
LoadRiskAssessment ==
    /\ clResult # NoResult
    /\ rkResult = NoResult
    /\ LET request == [kind |-> "body",
                       classificationResult |-> ClassificationOf(clInput.doc, clResult),
                       documentText |-> DocumentText(clInput.doc)]
       IN  /\ rkInput' = request
           /\ rkResult' = AssessRiskPOST(request)
    /\ UNCHANGED <<uploadVars, classifierVars, summarizerVars,
                 multilingualVars, routeVars, pythonVars,
                 speechVars>>

(***************************************************************************)
(* PART 6.  The multilingual summarizer (lib/multilingual-summarizer.ts).  *)
(*                                                                         *)
(* A text is a document of the summarizer's catalogue, a text of blanks,   *)
(* or a text of more than 50,000 characters.  The translator               *)
(* (SimpleTranslator) is not part of the sources: a call of translateText  *)
(* returns a translation or raises, as the environment decides, and        *)
(* getLanguageName is a lookup that does not raise.  A call of             *)
(* generateMultilingualSummary proceeds from one await of the translator   *)
(* to the next.  The counts of words of a SummaryResult (wordCount,        *)
(* originalLength, compressionRatio) depend on the words the translator    *)
(* returns and are left out.                                               *)
(***************************************************************************)

\* Bounds of the multilingual model.
MaxLanguages == 2               \* languages of a call
MaxTranslatorFailures == 2      \* calls of the translator that fail in a call

MIN_TEXT == 50                  \* text.length < 50: too short
MAX_TEXT == 50000               \* text.length > 50000: too long (the route)

\* supportedLanguages, supportedLangCodes.
SUPPORTED_LANGUAGES == <<"en", "hi", "te", "kn", "ml", "gu">>
SupportedCodes == {SUPPORTED_LANGUAGES[k] : k \in DOMAIN SUPPORTED_LANGUAGES}

\* The default of the parameter `languages`.
DEFAULT_LANGUAGES == <<"en", "hi", "ta">>

\* translator.getLanguageName.
getLanguageName(code) ==
    CASE code = "en" -> "English"
      [] code = "hi" -> "Hindi"
      [] code = "te" -> "Telugu"
      [] code = "kn" -> "Kannada"
      [] code = "ml" -> "Malayalam"
      [] code = "gu" -> "Gujarati"
      [] OTHER -> code

DocText(doc) == [kind |-> "doc", doc |-> doc]
BlankText(n) == [kind |-> "blank", length |-> n]
LongText == [kind |-> "long"]

\* text.length
Length(text) ==
    CASE text.kind = "doc" -> TextChars(text.doc)
      [] text.kind = "blank" -> text.length
      [] text.kind = "long" -> MAX_TEXT + 1

\* !text || text.trim().length === 0
IsBlank(text) ==
    \/ text.kind = "blank"
    \/ text.kind = "doc" /\ text.doc = <<>>

\* An English text is the summary (its pieces) or a key point.
SummaryText(pieces) == [kind |-> "summary", pieces |-> pieces]
IsEmptyText(t) == t.kind = "summary" /\ t.pieces = <<>>

\* What a call of translateText yields.
Translated(text, targetLanguage) ==
    [kind |-> "translated", to |-> targetLanguage, of |-> text]

\* Mutant of Unavailable: the annotation alone, without the text.
Unavailable_NoText(text, targetLanguage) ==
    [kind |-> "unavailable", language |-> getLanguageName(targetLanguage),
     of |-> SummaryText(<<>>)]

\* `[Translation service temporarily unavailable for ${languageName}]\n\n${text}`
Unavailable(text, targetLanguage) ==
    [kind |-> "unavailable", language |-> getLanguageName(targetLanguage), of |-> text]

\* Mutant of translateWithFallback: a failure of the translator is not
\* caught; it reaches the catch of the language, which (the language not
\* being English) pushes the result of an unavailable translation.
translateWithFallback_NoCatch(text, targetLanguage, ok) ==
    IF IsEmptyText(text) THEN [called |-> FALSE, raised |-> FALSE, value |-> text]
    ELSE IF targetLanguage = "en"
    THEN [called |-> FALSE, raised |-> FALSE, value |-> text]
    ELSE IF ok
    THEN [called |-> TRUE, raised |-> FALSE, value |-> Translated(text, targetLanguage)]
    ELSE [called |-> TRUE, raised |-> TRUE, value |-> text]

\* translateWithFallback: `called` tells whether translateText was called,
\* `raised` whether the function raises (it does not).
translateWithFallback(text, targetLanguage, ok) ==
    IF IsEmptyText(text) THEN [called |-> FALSE, raised |-> FALSE, value |-> text]
    ELSE IF targetLanguage = "en"
    THEN [called |-> FALSE, raised |-> FALSE, value |-> text]
    ELSE IF ok
    THEN [called |-> TRUE, raised |-> FALSE, value |-> Translated(text, targetLanguage)]
    ELSE [called |-> TRUE, raised |-> FALSE, value |-> Unavailable(text, targetLanguage)]

\* The locals of a call that has raised.
Raised(message) ==
    [pc |-> "raised", error |-> message, tier |-> "none",
     englishSummary |-> NoResult,
     keyPoints |-> <<>>, i |-> 0, j |-> 0, summary |-> NoResult,
     translatedKeyPoints |-> <<>>, summaries |-> <<>>]

\* The locals of a call when the loop over the languages begins:
\* englishSummary and keyPoints are those of the abstractive result.  `tier`
\* names the branch that assigned them: the try block ("abstractive"), its
\* catch ("extractive") or the catch of that ("truncation").
SummaryLocals(abstractiveResult) ==
    [pc |-> "language", error |-> "", tier |-> "abstractive",
     englishSummary |-> SummaryText(abstractiveResult.summary),
     keyPoints |-> abstractiveResult.keyPoints,
     i |-> 1, j |-> 0, summary |-> NoResult,
     translatedKeyPoints |-> <<>>, summaries |-> <<>>]

\* Mutant of BeginSummary: what the steps of the abstractive summary raise
\* is not caught by any fallback.
BeginSummary_NoFallback(text) ==
    IF IsBlank(text) THEN Raised("Text is required for summary generation")
    ELSE IF Length(text) < MIN_TEXT
    THEN Raised("Text is too short for meaningful summarization (minimum 50 characters)")
    ELSE IF createDetailedSections(text.doc, extractLegalThemes(text.doc),
                                   preserveOriginalTerms(text.doc)).kind = "TypeError"
    THEN Raised("TypeError")
    ELSE SummaryLocals(generateAbstractiveSummary(text.doc))

\* generateMultilingualSummary up to the loop over the languages: the
\* checks of the text and the summary.  generateAbstractiveSummary catches
\* what its steps raise and answers with its rule-based summary, so the
\* extractive and the truncation fallbacks are not entered.
BeginSummary(text) ==
    IF IsBlank(text) THEN Raised("Text is required for summary generation")
    ELSE IF Length(text) < MIN_TEXT
    THEN Raised("Text is too short for meaningful summarization (minimum 50 characters)")
    ELSE SummaryLocals(generateAbstractiveSummary(text.doc))

\* summaries.push({...}) and the step to the next language.
PushSummary(call, langCode, summary, keyPoints) ==
    [call EXCEPT
        !.pc = "language", !.i = @ + 1, !.j = 0, !.summary = NoResult,
        !.translatedKeyPoints = <<>>,
        !.summaries = Append(@, [language |-> getLanguageName(langCode),
                                 languageCode |-> langCode,
                                 summary |-> summary,
                                 keyPoints |-> keyPoints])]

\* The catch of a language that is not English.
PushUnavailable(call, langCode) ==
    PushSummary(call, langCode, Unavailable(call.englishSummary, langCode),
                [k \in DOMAIN call.keyPoints |->
                    [kind |-> "unavailable point", of |-> call.keyPoints[k]]])

Failures == Len(SelectSeq(translatorCalls, LAMBDA c : ~c.ok))
MayFail(ok) == ok \/ Failures < MaxTranslatorFailures

\* The record of a call of translateText.
TranslatorCall(i, item, langCode, ok) ==
    [i |-> i, item |-> item, language |-> langCode, ok |-> ok]

\* The call of generateMultilingualSummary begins.
GenerateStart ==
    /\ mlInput # NoResult
    /\ mlCall = NoResult
    /\ mlCall' = BeginSummary(mlInput.text)
    /\ UNCHANGED <<mlInput, translatorCalls, rtRequest, rtResponse,
                   uploadVars, riskVars, classifierVars, summarizerVars, pythonVars,
                 speechVars>>

AtLanguage ==
    /\ mlCall # NoResult
    /\ mlCall.pc = "language"
    /\ mlCall.i <= Len(mlInput.languages)

\* The loop body for langCode "en".
ProcessEnglish ==
    /\ AtLanguage
    /\ mlInput.languages[mlCall.i] = "en"
    /\ mlCall' = PushSummary(mlCall, "en", mlCall.englishSummary, mlCall.keyPoints)
    /\ UNCHANGED <<mlInput, translatorCalls, rtRequest, rtResponse,
                   uploadVars, riskVars, classifierVars, summarizerVars, pythonVars,
                 speechVars>>

\* The loop body for another language, up to the key points: the summary
\* is translated.
TranslateSummary(ok) ==
    /\ AtLanguage
    /\ mlInput.languages[mlCall.i] # "en"
    /\ MayFail(ok)
    /\ LET langCode == mlInput.languages[mlCall.i]
           t == translateWithFallback(mlCall.englishSummary, langCode, ok)
       IN  /\ translatorCalls' =
                 IF t.called
                 THEN Append(translatorCalls, TranslatorCall(mlCall.i, 0, langCode, ok))
                 ELSE translatorCalls
           /\ mlCall' =
                 IF t.raised THEN PushUnavailable(mlCall, langCode)
                 ELSE IF mlCall.keyPoints = <<>>
                 THEN PushSummary(mlCall, langCode, t.value, <<>>)
                 ELSE [mlCall EXCEPT !.pc = "keyPoint", !.j = 1, !.summary = t.value]
    /\ UNCHANGED <<mlInput, rtRequest, rtResponse,
                   uploadVars, riskVars, classifierVars, summarizerVars, pythonVars,
                 speechVars>>

\* One turn of the loop over the key points.
TranslateKeyPoint(ok) ==
    /\ mlCall # NoResult
    /\ mlCall.pc = "keyPoint"
    /\ MayFail(ok)
    /\ LET langCode == mlInput.languages[mlCall.i]
           t == translateWithFallback(mlCall.keyPoints[mlCall.j], langCode, ok)
           point == IF t.raised
                    THEN [kind |-> "failed point", of |-> mlCall.keyPoints[mlCall.j]]
                    ELSE t.value
           points == Append(mlCall.translatedKeyPoints, point)
       IN  /\ translatorCalls' =
                 IF t.called
                 THEN Append(translatorCalls,
                             TranslatorCall(mlCall.i, mlCall.j, langCode, ok))
                 ELSE translatorCalls
           /\ mlCall' =
                 IF mlCall.j = Len(mlCall.keyPoints)
                 THEN PushSummary(mlCall, langCode, mlCall.summary, points)
                 ELSE [mlCall EXCEPT !.j = @ + 1, !.translatedKeyPoints = points]
    /\ UNCHANGED <<mlInput, rtRequest, rtResponse,
                   uploadVars, riskVars, classifierVars, summarizerVars, pythonVars,
                 speechVars>>

\* After the loop: the result, or the error of an empty list.
GenerateReturn ==
    /\ mlCall # NoResult
    /\ mlCall.pc = "language"
    /\ mlCall.i > Len(mlInput.languages)
    /\ mlCall' = IF mlCall.summaries = <<>>
                 THEN Raised("Failed to generate any summaries")
                 ELSE [mlCall EXCEPT !.pc = "returned"]
    /\ UNCHANGED <<mlInput, translatorCalls, rtRequest, rtResponse,
                   uploadVars, riskVars, classifierVars, summarizerVars, pythonVars,
                 speechVars>>

GenerateMultilingualSummary ==
    \/ GenerateStart
    \/ ProcessEnglish
    \/ \E ok \in BOOLEAN : TranslateSummary(ok)
    \/ \E ok \in BOOLEAN : TranslateKeyPoint(ok)
    \/ GenerateReturn

\* The texts and language lists of the calls.
LanguageCodes == {"en", "hi", "te", "ta"}
MultilingualTexts ==
    {DocText(<<>>), BlankText(3), BlankText(60), DocText(<<"A">>),
     DocText(<<"C", "C", "C">>), DocText(<<"E", "F">>)}
MultilingualInputs ==
    [text : MultilingualTexts, languages : SeqsUpTo(LanguageCodes, MaxLanguages)]

InitMultilingual ==
    /\ mlInput \in MultilingualInputs
    /\ mlCall = NoResult
    /\ translatorCalls = <<>>

(***************************************************************************)
(* PART 7.  The API routes: upload, process-document, classify-clauses,    *)
(* assess-risk and summarize.  A request is in rtRequest with what the     *)
(* environment does while it is handled; the response is in rtResponse.    *)
(* The summarize route calls generateMultilingualSummary of PART 6 and     *)
(* races it against a timer of 30 seconds.                                 *)
(***************************************************************************)

\* POST of api/upload: the checks of the file, then the extraction.
UploadRoutePOST(request) ==
    IF request.server = "throws" THEN UploadPOST(request.pdf, "throws")
    ELSE IF request.file = "none"
    THEN [ok |-> FALSE, status |-> 400, error |-> "No file provided"]
    ELSE IF request.file # "pdf"
    THEN [ok |-> FALSE, status |-> 400, error |-> "Only PDF files are supported"]
    ELSE UploadPOST(request.pdf, "ok")

\* POST of api/process-document; a malformed body makes request.json()
\* raise.
ProcessDocumentRoutePOST(request) ==
    IF request.kind = "malformed"
    THEN [ok |-> FALSE, status |-> 500, error |-> "Failed to process document"]
    ELSE ProcessDocumentPOST(request.extractedText, request.classify)

\* POST of api/classify-clauses.  The text is absent (or ""), a string, or
\* not a string (text.substring raises).
ClassifyClausesPOST(request) ==
    IF request.kind = "malformed"
    THEN [status |-> 500, error |-> "Failed to classify clauses"]
    ELSE IF request.text = "absent"
    THEN [status |-> 400, error |-> "Text content is required"]
    ELSE IF request.text = "notString"
    THEN [status |-> 500, error |-> "Failed to classify clauses"]
    ELSE [status |-> 200, success |-> TRUE,
          result |-> classifyDocument(request.doc, request.rolls)]

\* globalErrorHandler of the summarize route.
globalErrorHandler(context) ==
    [status |-> 500, error |-> "Server error (HTTP 500)", context |-> context]

\* The languages of the request: `languages` or its default.
RequestedLanguages(request) ==
    IF request.languagesKind = "absent" THEN DEFAULT_LANGUAGES ELSE request.languages

\* Mutant of validLanguages: the list is passed on as it was requested.
validLanguages_NoFilter(request) == RequestedLanguages(request)

\* languages.filter(lang => supportedLangCodes.includes(lang))
validLanguages(request) ==
    SelectSeq(RequestedLanguages(request), LAMBDA lang : lang \in SupportedCodes)

\* POST of api/summarize up to the call of generateMultilingualSummary:
\* the response of a rejected request, or the arguments of the call.
SummarizeChecks(request) ==
    IF request.kind = "malformed"
    THEN [status |-> 400, error |-> "Invalid JSON in request body"]
    ELSE IF request.text.kind = "absent" \/ request.text = DocText(<<>>)
    THEN [status |-> 400, error |-> "Text is required for summarization"]
    ELSE IF request.text.kind = "notString"
    THEN globalErrorHandler("top_level")
    ELSE IF IsBlank(request.text)
    THEN [status |-> 400, error |-> "Text cannot be empty"]
    ELSE IF Length(request.text) > MAX_TEXT
    THEN [status |-> 400,
          error |-> "Text is too long for processing (max 50,000 characters)"]
    ELSE IF request.languagesKind = "notArray"
    THEN globalErrorHandler("top_level")
    ELSE IF validLanguages(request) = <<>>
    THEN [status |-> 400, error |-> "At least one supported language is required",
          supportedLanguages |-> SUPPORTED_LANGUAGES]
    ELSE [status |-> 0, text |-> request.text, languages |-> validLanguages(request)]

\* Mutant of SummarizeResponse: the handler of a failed call sends the
\* summaries made so far along with the error.
SummarizeResponse_WithSummaries(call, languages) ==
    IF call.pc = "raised"
    THEN [status |-> 500, error |-> "Server error (HTTP 500)",
          context |-> "summary_generation", summaries |-> call.summaries]
    ELSE [status |-> 200, summaries |-> call.summaries,
          supportedLanguages |-> SUPPORTED_LANGUAGES,
          apiInfo |-> [processedLanguages |-> Len(languages)]]

\* The response of the summarize route when the call has ended.
SummarizeResponse(call, languages) ==
    IF call.pc = "raised" THEN globalErrorHandler("summary_generation")
    ELSE [status |-> 200, summaries |-> call.summaries,
          supportedLanguages |-> SUPPORTED_LANGUAGES,
          apiInfo |-> [processedLanguages |-> Len(languages)]]

\* A route other than summarize handles its request.
HandleRequest ==
    /\ rtRequest # NoResult
    /\ rtRequest.route # "summarize"
    /\ rtResponse = NoResult
    /\ rtResponse' =
         CASE rtRequest.route = "upload" -> UploadRoutePOST(rtRequest)
           [] rtRequest.route = "process-document" -> ProcessDocumentRoutePOST(rtRequest)
           [] rtRequest.route = "classify-clauses" -> ClassifyClausesPOST(rtRequest)
           [] rtRequest.route = "assess-risk" -> AssessRiskPOST(rtRequest)
    /\ UNCHANGED <<rtRequest, uploadVars, riskVars, classifierVars, summarizerVars,
                   multilingualVars, pythonVars,
                 speechVars>>

\* processFile after an upload that was answered ok: the text of the
\* response is posted to process-document.
PostExtractedText(classify) ==
    /\ rtRequest # NoResult
    /\ rtRequest.route = "upload"
    /\ rtResponse # NoResult
    /\ rtResponse.ok
    /\ rtRequest' = [route |-> "process-document", kind |-> "body",
                     extractedText |-> rtResponse.extractedText,
                     classify |-> classify, after |-> rtRequest.pdf]
    /\ rtResponse' = NoResult
    /\ UNCHANGED <<uploadVars, riskVars, classifierVars, summarizerVars,
                   multilingualVars, pythonVars,
                 speechVars>>

\* The summarize route checks its request and answers it or calls
\* generateMultilingualSummary.
SummarizeStart ==
    /\ rtRequest # NoResult
    /\ rtRequest.route = "summarize"
    /\ rtResponse = NoResult
    /\ mlInput = NoResult
    /\ LET checked == SummarizeChecks(rtRequest)
       IN  IF checked.status = 0
           THEN /\ mlInput' = [text |-> checked.text, languages |-> checked.languages]
                /\ UNCHANGED rtResponse
           ELSE /\ rtResponse' = checked
                /\ UNCHANGED mlInput
    /\ UNCHANGED <<rtRequest, mlCall, translatorCalls,
                   uploadVars, riskVars, classifierVars, summarizerVars, pythonVars,
                 speechVars>>

\* The timer of 30 seconds fires while the call awaits the translator; the
\* call goes on.
SummarizeTimeout ==
    /\ rtRequest # NoResult
    /\ rtRequest.route = "summarize"
    /\ rtResponse = NoResult
    /\ mlCall # NoResult
    /\ mlCall.pc \in {"language", "keyPoint"}
    /\ rtResponse' = globalErrorHandler("summary_generation")
    /\ UNCHANGED <<rtRequest, uploadVars, riskVars, classifierVars, summarizerVars,
                   multilingualVars, pythonVars,
                 speechVars>>

\* The call has ended before the timer fired.
SummarizeRespond ==
    /\ rtRequest # NoResult
    /\ rtRequest.route = "summarize"
    /\ rtResponse = NoResult
    /\ mlCall # NoResult
    /\ mlCall.pc \in {"returned", "raised"}
    /\ rtResponse' = SummarizeResponse(mlCall, mlInput.languages)
    /\ UNCHANGED <<rtRequest, uploadVars, riskVars, classifierVars, summarizerVars,
                   multilingualVars, pythonVars,
                 speechVars>>

\* The requests.
UploadRequests ==
    [route : {"upload"}, file : {"none", "pdf", "other"}, pdf : PdfKinds,
     server : {"ok", "throws"}]
ProcessRequests ==
    [route : {"process-document"}, kind : {"malformed", "body"},
     extractedText : {"", "extracted"}, classify : ClassifyOutcomes,
     after : {"none"}]
ClassifyRequests ==
    [route : {"classify-clauses"}, kind : {"malformed", "body"},
     text : {"absent", "string", "notString"},
     doc : {<<"T", "L">>, <<"G">>}, rolls : {<<5, 70>>}]
AssessRequests ==
    [route : {"assess-risk"}, kind : {"malformed", "body"},
     classificationResult :
        {NoResult,
         [summary |-> [totalClauses |-> 0]],
         [clauses |-> <<>>],
         [clauses |-> << [type |-> "liability", riskLevel |-> "high",
                          confidence |-> 80, text |-> <<"unlimited", "liability">>] >>]},
     documentText : {<<>>, <<"unlimited", "liability">>}]
SummarizeTexts ==
    {[kind |-> "absent"], [kind |-> "notString"], DocText(<<>>), BlankText(3),
     LongText, DocText(<<"A">>), DocText(<<"C", "C", "C">>), DocText(<<"E", "F">>)}
SummarizeRequests ==
    [route : {"summarize"}, kind : {"body"}, text : SummarizeTexts,
     languagesKind : {"array"}, languages : SeqsUpTo(LanguageCodes, MaxLanguages)]
    \cup [route : {"summarize"}, kind : {"malformed", "body"}, text : SummarizeTexts,
          languagesKind : {"absent", "notArray"}, languages : {<<>>}]
RouteRequests ==
    UploadRequests \cup ProcessRequests \cup ClassifyRequests \cup AssessRequests
    \cup SummarizeRequests

InitRoutes ==
    /\ rtRequest \in RouteRequests
    /\ rtResponse = NoResult

(***************************************************************************)
(* PART 8.  The Python Google translator (lib/python-google-translator.ts). *)
(*                                                                         *)
(* translateText runs without interruption up to its await of the command: *)
(* it checks the text, writes it to the temporary file and spawns the      *)
(* shell.  The shell is another process: it reads the file when it         *)
(* expands $(cat file), at any time after it was spawned.  The call goes   *)
(* on when the command has exited, and removes the file in its finally     *)
(* block.  All calls use the same file, scripts/temp_text.txt.             *)
(***************************************************************************)

\* Bound of the translator model.
MaxTranslations == 2    \* calls of translateText

TranslationCalls == 1..MaxTranslations

\* The texts of the calls: "" is an empty text, "<long>" one of more than
\* 10,000 characters.
PyTexts == {"", "<long>", "lease", "deed"}

InitPython ==
    /\ pyCalls = [c \in TranslationCalls |->
                    [pc |-> "idle", text |-> "", read |-> <<>>, success |-> FALSE]]
    /\ tempFile = <<>>

PythonIdle == InitPython

\* !text || text.trim().length === 0, and text.length > 10000.
RefusedText(text) == text \in {"", "<long>"}

\* escapeTextForCommand: fs.writeFileSync(tempFile, text, "utf8") on the
\* path scripts/temp_text.txt.
escapeTextForCommand(text) == <<text>>

\* $(cat 'file') in the shell: the content of the file, and nothing when
\* there is no file.
CatFile(file) == IF file = <<>> THEN <<"">> ELSE file

\* translateText with a text it refuses: the throw is before tempFile is
\* assigned, so the finally block leaves the file alone.
TranslateTextRefuses(c, text) ==
    /\ pyCalls[c].pc = "idle"
    /\ RefusedText(text)
    /\ pyCalls' = [pyCalls EXCEPT ![c] = [pc |-> "done", text |-> text,
                                          read |-> <<>>, success |-> FALSE]]
    /\ UNCHANGED <<tempFile, uploadVars, riskVars, classifierVars,
                   summarizerVars, multilingualVars, routeVars, speechVars>>

\* translateText up to `await execAsync(command, ...)`.
TranslateTextStarts(c, text) ==
    /\ pyCalls[c].pc = "idle"
    /\ ~RefusedText(text)
    /\ tempFile' = escapeTextForCommand(text)
    /\ pyCalls' = [pyCalls EXCEPT ![c] = [pc |-> "spawned", text |-> text,
                                          read |-> <<>>, success |-> FALSE]]
    /\ UNCHANGED <<uploadVars, riskVars, classifierVars,
                   summarizerVars, multilingualVars, routeVars, speechVars>>

\* The shell of the call's command expands $(cat file).
ShellReadsFile(c) ==
    /\ pyCalls[c].pc = "spawned"
    /\ pyCalls' = [pyCalls EXCEPT ![c].pc = "running", ![c].read = CatFile(tempFile)]
    /\ UNCHANGED <<tempFile, uploadVars, riskVars, classifierVars,
                   summarizerVars, multilingualVars, routeVars, speechVars>>

\* The command fails before its shell has read the file (it cannot be
\* spawned, or is killed): the catch answers, the finally block removes
\* the file.
CommandFails(c) ==
    /\ pyCalls[c].pc = "spawned"
    /\ pyCalls' = [pyCalls EXCEPT ![c].pc = "done"]
    /\ tempFile' = <<>>     \* finally: fs.unlinkSync(tempFile)
    /\ UNCHANGED <<uploadVars, riskVars, classifierVars,
                   summarizerVars, multilingualVars, routeVars, speechVars>>

\* The command has exited: translateText returns the parsed result or the
\* answer of its catch, and the finally block removes the file.
TranslateTextReturns(c, ok) ==
    /\ pyCalls[c].pc = "running"
    /\ pyCalls' = [pyCalls EXCEPT ![c].pc = "done", ![c].success = ok]
    /\ tempFile' = <<>>     \* finally: fs.unlinkSync(tempFile)
    /\ UNCHANGED <<uploadVars, riskVars, classifierVars,
                   summarizerVars, multilingualVars, routeVars, speechVars>>

(***************************************************************************)
(* PART 9.  The text to speech service (lib/text-to-speech.ts).            *)
(*                                                                         *)
(* An utterance is denoted by its number in the order of the speak calls.  *)
(* speechSynthesis keeps a queue: an utterance is queued, then spoken, and *)
(* its events are delivered to its handlers later than the call that       *)
(* caused them.  cancel() empties the queue; every utterance it removes    *)
(* or interrupts gets an error event ('canceled', 'interrupted') or an end *)
(* event.  speechSynthesis.speaking is true while an utterance is queued   *)
(* or spoken; cancel() leaves speechSynthesis.paused as it is.             *)
(***************************************************************************)

\* Bound of the speech model.
MaxUtterances == 3      \* calls of speak with a text that is not blank

InitSpeech ==
    /\ utterances = <<>>
    /\ currentUtterance = 0
    /\ paused = FALSE
    /\ reported = NoResult

SpeechIdle == InitSpeech

\* speechSynthesis.speaking
Speaking ==
    \E u \in DOMAIN utterances : utterances[u].status \in {"queued", "speaking"}

\* The state the handlers report when nothing plays.
NotPlaying == [isPlaying |-> FALSE, isPaused |-> FALSE, currentText |-> 0]

\* speechSynthesis.cancel()
Cancel(us) ==
    [u \in DOMAIN us |->
        IF us[u].status \in {"queued", "speaking"}
        THEN [us[u] EXCEPT !.status = "cancelled"] ELSE us[u]]

\* stop(): what it leaves of the utterances, the field and the report.
StopSpeech ==
    IF Speaking \/ paused
    THEN [utterances |-> Cancel(utterances), currentUtterance |-> 0,
          reported |-> NotPlaying]
    ELSE [utterances |-> utterances, currentUtterance |-> currentUtterance,
          reported |-> reported]

\* speak(text) with a text that is not blank.  `superseded` records that
\* an utterance was being spoken when the call was made.
Speak ==
    /\ Len(utterances) < MaxUtterances
    /\ utterances' =
          Append(StopSpeech.utterances,
                 [status |-> "queued",
                  superseded |-> \E u \in DOMAIN utterances :
                                    utterances[u].status = "speaking"])
    /\ currentUtterance' = Len(utterances) + 1
    /\ reported' = StopSpeech.reported
    /\ UNCHANGED <<paused, uploadVars, riskVars, classifierVars,
                   summarizerVars, multilingualVars, routeVars, pythonVars>>

\* stop() called by the user while something is queued, spoken or paused.
Stop ==
    /\ Speaking \/ paused
    /\ utterances' = StopSpeech.utterances
    /\ currentUtterance' = StopSpeech.currentUtterance
    /\ reported' = StopSpeech.reported
    /\ UNCHANGED <<paused, uploadVars, riskVars, classifierVars,
                   summarizerVars, multilingualVars, routeVars, pythonVars>>

\* pause()
Pause ==
    /\ Speaking /\ ~paused
    /\ paused' = TRUE
    /\ reported' = [isPlaying |-> FALSE, isPaused |-> TRUE,
                    currentText |-> currentUtterance]
    /\ UNCHANGED <<utterances, currentUtterance, uploadVars, riskVars,
                   classifierVars, summarizerVars, multilingualVars, routeVars,
                   pythonVars>>

\* resume()
Resume ==
    /\ paused
    /\ paused' = FALSE
    /\ reported' = [isPlaying |-> TRUE, isPaused |-> FALSE,
                    currentText |-> currentUtterance]
    /\ UNCHANGED <<utterances, currentUtterance, uploadVars, riskVars,
                   classifierVars, summarizerVars, multilingualVars, routeVars,
                   pythonVars>>

\* utterance.onstart: the synthesis begins to speak the head of its queue.
UtteranceStart(u) ==
    /\ utterances[u].status = "queued"
    /\ ~paused
    /\ \A v \in DOMAIN utterances :
          /\ utterances[v].status # "speaking"
          /\ utterances[v].status = "queued" => u <= v
    /\ utterances' = [utterances EXCEPT ![u].status = "speaking"]
    /\ reported' = [isPlaying |-> TRUE, isPaused |-> FALSE, currentText |-> u]
    /\ UNCHANGED <<currentUtterance, paused, uploadVars, riskVars,
                   classifierVars, summarizerVars, multilingualVars, routeVars,
                   pythonVars>>

\* utterance.onend of an utterance spoken to its end.
UtteranceEnd(u) ==
    /\ utterances[u].status = "speaking"
    /\ ~paused
    /\ utterances' = [utterances EXCEPT ![u].status = "ended"]
    /\ reported' = NotPlaying
    /\ currentUtterance' = 0
    /\ UNCHANGED <<paused, uploadVars, riskVars, classifierVars,
                   summarizerVars, multilingualVars, routeVars, pythonVars>>

\* utterance.onerror with an error that is no interruption: onError is
\* called, no state is reported.
UtteranceError(u) ==
    /\ utterances[u].status \in {"queued", "speaking"}
    /\ utterances' = [utterances EXCEPT ![u].status = "failed"]
    /\ currentUtterance' = 0
    /\ UNCHANGED <<paused, reported, uploadVars, riskVars, classifierVars,
                   summarizerVars, multilingualVars, routeVars, pythonVars>>

\* The event of an utterance that cancel() removed or interrupted reaches
\* its handler: utterance.onerror with 'interrupted' or 'canceled', or
\* utterance.onend.
CancelledEvent(u) ==
    /\ utterances[u].status = "cancelled"
    /\ utterances' = [utterances EXCEPT ![u].status = "notified"]
    /\ reported' = NotPlaying
    /\ currentUtterance' = 0
    /\ UNCHANGED <<paused, uploadVars, riskVars, classifierVars,
                   summarizerVars, multilingualVars, routeVars, pythonVars>>

RiskIdle == rkInput = NoResult /\ rkResult = NoResult
ClassifierIdle == clInput = NoResult /\ clResult = NoResult /\ clRerun = NoResult
SummarizerIdle == smInput = NoResult /\ smResult = NoResult
MultilingualIdle == mlInput = NoResult /\ mlCall = NoResult /\ translatorCalls = <<>>
RouteIdle == rtRequest = NoResult /\ rtResponse = NoResult

InitUpload ==
    /\ files = <<>>
    /\ isProcessing = FALSE
    /\ drops = <<>>
    /\ stageFailed = <<>>

UploadIdle == InitUpload

Init ==
    InitUpload /\ RiskIdle /\ ClassifierIdle /\ SummarizerIdle
    /\ MultilingualIdle /\ RouteIdle
    /\ PythonIdle /\ SpeechIdle

Next ==
    \/ \E n \in 0..MaxFiles : OnDrop(n)
    \/ \E d \in DOMAIN drops : ProcessFileStart(d)
    \/ \E d \in DOMAIN drops : OnDropEnd(d)
    \/ \E d \in DOMAIN drops, net \in BOOLEAN, server \in {"ok", "throws"},
            pdf \in PdfKinds : UploadResponse(d, net, server, pdf)
    \/ \E d \in DOMAIN drops, net \in BOOLEAN, classify \in ClassifyOutcomes :
            ProcessResponse(d, net, classify)
    \/ \E d \in DOMAIN drops : ProcessFileComplete(d)

Spec == Init /\ [][Next]_vars

SpecUpload == Spec

InitRiskSpec ==
    InitRisk /\ UploadIdle /\ ClassifierIdle /\ SummarizerIdle
    /\ MultilingualIdle /\ RouteIdle
    /\ PythonIdle /\ SpeechIdle
NextRisk == AssessRisk
SpecRisk == InitRiskSpec /\ [][NextRisk]_vars

InitClassifierSpec ==
    InitClassifier /\ UploadIdle /\ RiskIdle /\ SummarizerIdle
    /\ MultilingualIdle /\ RouteIdle
    /\ PythonIdle /\ SpeechIdle
NextClassifier == ClassifyDocument
SpecClassifier == InitClassifierSpec /\ [][NextClassifier]_vars

InitAnalysisSpec ==
    InitAnalysis /\ UploadIdle /\ RiskIdle /\ SummarizerIdle
    /\ MultilingualIdle /\ RouteIdle
    /\ PythonIdle /\ SpeechIdle
NextAnalysis ==
    \/ ClassifyDocument
    \/ \E rolls \in RollPatterns : ClassifyAgain(rolls)
    \/ LoadRiskAssessment
SpecAnalysis == InitAnalysisSpec /\ [][NextAnalysis]_vars

InitMultilingualSpec ==
    InitMultilingual /\ UploadIdle /\ RiskIdle /\ ClassifierIdle /\ SummarizerIdle
    /\ RouteIdle
    /\ PythonIdle /\ SpeechIdle
NextMultilingual == GenerateMultilingualSummary
SpecMultilingual == InitMultilingualSpec /\ [][NextMultilingual]_vars

InitRoutesSpec ==
    InitRoutes /\ UploadIdle /\ RiskIdle /\ ClassifierIdle /\ SummarizerIdle
    /\ MultilingualIdle
    /\ PythonIdle /\ SpeechIdle
NextRoutes ==
    \/ HandleRequest
    \/ \E classify \in ClassifyOutcomes : PostExtractedText(classify)
    \/ SummarizeStart
    \/ GenerateMultilingualSummary
    \/ SummarizeTimeout
    \/ SummarizeRespond
SpecRoutes == InitRoutesSpec /\ [][NextRoutes]_vars

InitSummarizerSpec ==
    InitSummarizer /\ UploadIdle /\ RiskIdle /\ ClassifierIdle
    /\ MultilingualIdle /\ RouteIdle
    /\ PythonIdle /\ SpeechIdle
NextSummarizer == Summarize
SpecSummarizer == InitSummarizerSpec /\ [][NextSummarizer]_vars

InitPythonSpec ==
    InitPython /\ UploadIdle /\ RiskIdle /\ ClassifierIdle /\ SummarizerIdle
    /\ MultilingualIdle /\ RouteIdle /\ SpeechIdle
NextPython ==
    \/ \E c \in TranslationCalls, text \in PyTexts : TranslateTextRefuses(c, text)
    \/ \E c \in TranslationCalls, text \in PyTexts : TranslateTextStarts(c, text)
    \/ \E c \in TranslationCalls : ShellReadsFile(c)
    \/ \E c \in TranslationCalls : CommandFails(c)
    \/ \E c \in TranslationCalls, ok \in BOOLEAN : TranslateTextReturns(c, ok)
SpecPython == InitPythonSpec /\ [][NextPython]_vars

InitSpeechSpec ==
    InitSpeech /\ UploadIdle /\ RiskIdle /\ ClassifierIdle /\ SummarizerIdle
    /\ MultilingualIdle /\ RouteIdle /\ PythonIdle
NextSpeech ==
    \/ Speak
    \/ Stop
    \/ Pause
    \/ Resume
    \/ \E u \in DOMAIN utterances : UtteranceStart(u)
    \/ \E u \in DOMAIN utterances : UtteranceEnd(u)
    \/ \E u \in DOMAIN utterances : UtteranceError(u)
    \/ \E u \in DOMAIN utterances : CancelledEvent(u)
SpecSpeech == InitSpeechSpec /\ [][NextSpeech]_vars

(***************************************************************************)
(* Claims about the upload pipeline.                                       *)
(***************************************************************************)

\* The moves a file status may make.
StatusMoves ==
    {<<"uploading", "extracting">>, <<"extracting", "preprocessing">>,
     <<"preprocessing", "classifying">>, <<"classifying", "completed">>}
    \cup ((Statuses \ TerminalStatuses) \X {"error"})

\* C1: every file entry starts with status "uploading"; its status only
\* moves one step along uploading -> extracting -> preprocessing ->
\* classifying -> completed, or from a non-terminal status to "error";
\* a status "completed" or "error" never changes again.
C1_StatusMachine ==
    [][ /\ Len(files') >= Len(files)
        /\ \A k \in DOMAIN files' :
              IF k \in DOMAIN files
              THEN \/ files'[k].status = files[k].status
                   \/ /\ <<files[k].status, files'[k].status>> \in StatusMoves
                      /\ files[k].status \notin TerminalStatuses
              ELSE files'[k].status = "uploading" ]_vars

\* C1 witness: a file has gone all the way to "completed", another one
\* has ended in "error", and the onDrop calls have all finished.
C1_Witness ==
    /\ \E k \in DOMAIN files : files[k].status = "completed"
    /\ \E k \in DOMAIN files : files[k].status = "error"
    /\ Len(drops) = MaxDrops
    /\ \A d \in DOMAIN drops : drops[d].pc = "done"

NoPartialResults(f) ==
    /\ f.extractedText = Undefined
    /\ f.pageCount = Undefined
    /\ f.wordCount = Undefined
    /\ f.classificationResult = Undefined

\* C2 (as claimed): a file one of whose stages failed (the upload request,
\* the process-document request, or the clause classification it invokes)
\* never reaches "completed" and carries no partial results.
C2_FailedStageMeansError ==
    \A k \in DOMAIN files :
        stageFailed[k] => /\ files[k].status # "completed"
                          /\ NoPartialResults(files[k])

\* The files of onDrop call d, in submission order.
FilesOf(d) == [j \in 1..drops[d].n |-> drops[d].base + j]

RiskDone == rkResult # NoResult

\* The text has "unlimited liability" in it, in any letter case.
HasUnlimitedLiability(text) ==
    \E k \in 1..(Len(text) - 1) :
        /\ text[k] \in {"unlimited", "Unlimited"}
        /\ text[k + 1] \in {"liability", "LIABILITY"}

\* C4: for every text with "unlimited liability" in it (in any letter
\* case) and every classification result, the empty one included,
\* assessRisk returns a risk factor of severity critical and
\* financialImpact.costRisk = critical.
C4_UnlimitedLiabilityIsCritical ==
    (RiskDone /\ HasUnlimitedLiability(rkInput.text)) =>
        /\ \E k \in DOMAIN rkResult.riskFactors :
              rkResult.riskFactors[k].severity = "critical"
        /\ rkResult.financialImpact.costRisk = "critical"

\* C4 witness: the phrase in capitals, in a longer text, with no clause.
C4_Witness ==
    /\ RiskDone
    /\ rkInput.clauses = <<>>
    /\ Len(rkInput.text) > 2
    /\ HasUnlimitedLiability(rkInput.text)
    /\ ~includes(rkInput.text, <<"unlimited", "liability">>)

\* The sums of the score, over the clauses as a set of positions.
RECURSIVE SumOver(_, _)
SumOver(S, f) ==
    IF S = {} THEN 0
    ELSE LET x == CHOOSE y \in S : TRUE IN f[x] + SumOver(S \ {x}, f)

WeightedSum(clauses) ==
    SumOver(DOMAIN clauses,
            [k \in DOMAIN clauses |->
                RISK_WEIGHTS[clauses[k].type][clauses[k].riskLevel] * clauses[k].confidence])

HighSum(clauses) ==
    SumOver(DOMAIN clauses,
            [k \in DOMAIN clauses |-> RISK_WEIGHTS[clauses[k].type].high])

\* C5: overallRiskScore is in [0, 100] and is sum(weight[type][riskLevel]
\* * confidence) / sum(weight[type].high) * 100, rounded to the nearest
\* integer (halves up) and clamped to [0, 100]; 0 without clauses.
\* With S the weighted sum in hundredths and M the sum of high weights,
\* r is the rounding of S / M iff 2*M*r - M <= 2*S < 2*M*r + M.
C5_ScoreFormula ==
    RiskDone =>
        LET S == WeightedSum(rkInput.clauses)
            M == HighSum(rkInput.clauses)
            score == rkResult.overallRiskScore
        IN  /\ score \in 0..100
            /\ M = 0 => score = 0
            /\ M > 0 => \E r \in 0..200 :
                            /\ 2 * M * r - M <= 2 * S
                            /\ 2 * S < 2 * M * r + M
                            /\ score = IF r > 100 THEN 100 ELSE r

\* C5 witness: two clauses of different types and risk levels whose
\* normalised score is not an integer, so that it is rounded.
C5_Witness ==
    /\ RiskDone
    /\ Len(rkInput.clauses) = 2
    /\ rkInput.clauses[1].type # rkInput.clauses[2].type
    /\ rkInput.clauses[1].riskLevel # rkInput.clauses[2].riskLevel
    /\ WeightedSum(rkInput.clauses) % HighSum(rkInput.clauses) # 0
    /\ rkResult.overallRiskScore \in 1..99

\* C6: riskGrade is determined by overallRiskScore: A up to 20, B up to
\* 40, C up to 60, D up to 80, F above; 20, 40, 60, 80 map to A, B, C, D
\* and 21, 41, 61, 81 to B, C, D, F.
C6_GradeThresholds ==
    /\ RiskDone =>
          LET score == rkResult.overallRiskScore
              grade == rkResult.riskGrade
          IN  /\ grade = "A" <=> score <= 20
              /\ grade = "B" <=> (20 < score /\ score <= 40)
              /\ grade = "C" <=> (40 < score /\ score <= 60)
              /\ grade = "D" <=> (60 < score /\ score <= 80)
              /\ grade = "F" <=> 80 < score
    /\ <<calculateRiskGrade(20), calculateRiskGrade(40),
          calculateRiskGrade(60), calculateRiskGrade(80)>> = <<"A", "B", "C", "D">>
    /\ <<calculateRiskGrade(21), calculateRiskGrade(41),
          calculateRiskGrade(61), calculateRiskGrade(81)>> = <<"B", "C", "D", "F">>

\* C6 witness: an assessment whose score is exactly the boundary 80.
C6_Witness ==
    /\ RiskDone
    /\ rkResult.overallRiskScore = 80
    /\ rkResult.riskGrade = "D"

\* C9: the riskFactors list is sorted non-increasing by severity rank:
\* no factor is followed by one of strictly higher severity.
C9_FactorsSorted ==
    RiskDone =>
        \A j \in DOMAIN rkResult.riskFactors : \A k \in DOMAIN rkResult.riskFactors :
            j < k => severityOrder[rkResult.riskFactors[j].severity]
                        >= severityOrder[rkResult.riskFactors[k].severity]

\* C9 witness: factors of the three severities that occur, at once.
C9_Witness ==
    /\ RiskDone
    /\ \A sev \in {"critical", "high", "medium"} :
          \E k \in DOMAIN rkResult.riskFactors : rkResult.riskFactors[k].severity = sev

(***************************************************************************)
(* Claims about the clause classifier, checked under SpecClassifier.       *)
(***************************************************************************)

ClassifierDone == clResult # NoResult

\* C7: for every classified document, summary.totalClauses equals
\* highRiskClauses + mediumRiskClauses + lowRiskClauses, equals the length
\* of the returned clause list, and is at most 20.
C7_SummaryCounts ==
    ClassifierDone =>
        /\ clResult.summary.totalClauses =
              clResult.summary.highRiskClauses
              + clResult.summary.mediumRiskClauses
              + clResult.summary.lowRiskClauses
        /\ clResult.summary.totalClauses = Len(clResult.clauses)
        /\ clResult.summary.totalClauses <= 20

\* A document with more than 20 distinct clauses, of which 20 are returned,
\* with clauses of every risk level among them.
C7_Witness ==
    /\ ClassifierDone
    /\ Len(RemoveDuplicates(clResult.allClauses)) > 20
    /\ clResult.summary.totalClauses = 20
    /\ clResult.summary.highRiskClauses > 0
    /\ clResult.summary.mediumRiskClauses > 0
    /\ clResult.summary.lowRiskClauses > 0

\* C8: every clause returned by the classifier has a confidence in
\* [0, 0.98]: never below the base of 0.75 and never above the cap of 0.98
\* (confidences are in hundredths).
C8_ConfidenceRange ==
    ClassifierDone =>
        \A k \in DOMAIN clResult.clauses :
            /\ 0 <= clResult.clauses[k].confidence
            /\ 75 <= clResult.clauses[k].confidence
            /\ clResult.clauses[k].confidence <= 98

\* A clause whose density and length terms exceed the cap, returned with
\* the capped confidence.
C8_Witness ==
    /\ ClassifierDone
    /\ \E k \in DOMAIN clResult.clauses :
          /\ clResult.clauses[k].confidence = 98
          /\ LET ctx == [from |-> clResult.clauses[k].text[1],
                         to |-> clResult.clauses[k].text[2],
                         length |-> clResult.clauses[k].text[2]
                                    - clResult.clauses[k].text[1]]
             IN  ConfidenceOf_NoCap(
                     RelevantWords(clInput.doc, ctx, clResult.clauses[k].type),
                     ContextWords(clInput.doc, ctx), ctx.length) > 98

(***************************************************************************)
(* Claims about the abstractive summarizer, checked under SpecSummarizer.  *)
(***************************************************************************)

SummarizerDone == smResult # NoResult

\* C10: for any non-empty input text of at least 50 characters,
\* generateAbstractiveSummary returns a non-empty summary and at least 5
\* key points, on every path including its exception fallback.
C10_SummaryAndKeyPoints ==
    (SummarizerDone /\ TextChars(smInput.text) >= 50) =>
        /\ smResult.summary # <<>>
        /\ Len(smResult.keyPoints) >= 5

(***************************************************************************)
(* Claims about the analysis of a classified document.                     *)
(***************************************************************************)

BothRuns == clResult # NoResult /\ clRerun # NoResult

\* Two clauses that agree in type, text, span and confidence.
SameClause(a, b) ==
    /\ a.type = b.type
    /\ a.text = b.text
    /\ a.startIndex = b.startIndex
    /\ a.endIndex = b.endIndex
    /\ a.confidence = b.confidence

\* The text of a clause has the keyword.
ClauseHas(doc, c, kw) ==
    \E o \in TextKeywords(doc) :
        o.kw = kw /\ c.text[1] <= o.index /\ o.index + o.len <= c.text[2]

\* A clause with no high or medium risk keyword and no trigger of its type.
NoKeywordNoTrigger(doc, c) ==
    /\ \A k \in DOMAIN RISK_KEYWORDS.high : ~ClauseHas(doc, c, RISK_KEYWORDS.high[k])
    /\ \A k \in DOMAIN RISK_KEYWORDS.medium :
            ~ClauseHas(doc, c, RISK_KEYWORDS.medium[k])
    /\ c.type = "termination" =>
            \A kw \in {"immediate", "without notice", "30 days", "notice period"} :
                ~ClauseHas(doc, c, kw)
    /\ c.type = "liability" =>
            \A kw \in {"unlimited", "no limit", "indemnify", "damages"} :
                ~ClauseHas(doc, c, kw)
    /\ c.type = "payment" =>
            \A kw \in {"penalty", "late fee", "personal guarantee"} :
                ~ClauseHas(doc, c, kw)

\* C11: two runs of the classification on the same text return the same
\* clauses in type, text, span and confidence, whatever Math.random()
\* yields in each run; they differ at most in the riskLevel of clauses
\* with no high or medium risk keyword and no trigger of their type.
C11_RerunDiffersOnlyInRandomRisk ==
    BothRuns =>
        LET a == clResult.clauses
            b == clRerun.result.clauses
        IN  /\ Len(a) = Len(b)
            /\ \A k \in DOMAIN a :
                /\ SameClause(a[k], b[k])
                /\ a[k].riskLevel # b[k].riskLevel =>
                        NoKeywordNoTrigger(clInput.doc, a[k])

\* The two runs drew different rolls and a clause got different levels,
\* next to a clause whose level the keywords fix.
C11_Witness ==
    /\ BothRuns
    /\ clInput.rolls # clRerun.rolls
    /\ \E k \in DOMAIN clResult.clauses :
            clResult.clauses[k].riskLevel # clRerun.result.clauses[k].riskLevel
    /\ \E k \in DOMAIN clResult.clauses :
            ~NoKeywordNoTrigger(clInput.doc, clResult.clauses[k])

\* The scenario text "This agreement shall be terminated immediately
\* without notice. The employee shall be liable for unlimited damages.",
\* classified and assessed.
ScenarioAssessed ==
    /\ clInput # NoResult
    /\ clInput.doc = <<"T", "L">>
    /\ clResult # NoResult
    /\ rkResult # NoResult

ScenarioClauses ==
    /\ \E k \in DOMAIN clResult.clauses :
            clResult.clauses[k].type = "termination"
            /\ clResult.clauses[k].riskLevel = "high"
    /\ \E k \in DOMAIN clResult.clauses : clResult.clauses[k].type = "liability"

ScenarioGrade ==
    /\ rkResult.status = 200
    /\ rkResult.riskAssessment.riskGrade \in {"D", "F"}

\* The factor of the critical pattern "unlimited liability" is reported.
UnlimitedLiabilityFactor ==
    \E k \in DOMAIN rkResult.riskAssessment.riskFactors :
        rkResult.riskAssessment.riskFactors[k].id = <<"critical", 0>>

\* C12 as stated: on the scenario text the classifier returns a high risk
\* termination clause and a liability clause, and the engine reports the
\* "unlimited liability" critical pattern factor and a grade of D or F.
C12_ScenarioReportsCriticalFactor ==
    ScenarioAssessed =>
        ScenarioClauses /\ ScenarioGrade /\ UnlimitedLiabilityFactor

\* C12 amended: on the scenario text the classifier returns a high risk
\* termination clause and a liability clause, and the engine reports a
\* grade of D or F and no critical pattern factor (the text has the words
\* "unlimited damages", not the phrase "unlimited liability").
C12_ScenarioHighRiskNoCriticalFactor ==
    ScenarioAssessed =>
        /\ ScenarioClauses
        /\ ScenarioGrade
        /\ \A k \in DOMAIN rkResult.riskAssessment.riskFactors :
                rkResult.riskAssessment.riskFactors[k].severity # "critical"

C12_Witness ==
    /\ ScenarioAssessed
    /\ rkResult.riskAssessment.overallRiskScore = 88
    /\ Len(rkResult.riskAssessment.riskFactors) = 4

\* No clause pattern matches in the text.
NoPatternMatches(doc) ==
    \A k \in DOMAIN doc : Sentences[doc[k]].matches = <<>>

\* C13: for every text in which no clause pattern matches, the empty text
\* included, classifyDocument returns an empty clause list and a summary
\* whose four counts are 0.
C13_NoMatchNoClauses ==
    (ClassifierDone /\ NoPatternMatches(clInput.doc)) =>
        /\ clResult.clauses = <<>>
        /\ clResult.summary.totalClauses = 0
        /\ clResult.summary.highRiskClauses = 0
        /\ clResult.summary.mediumRiskClauses = 0
        /\ clResult.summary.lowRiskClauses = 0

\* A text of two sentences without a match has been classified.
C13_Witness ==
    /\ ClassifierDone
    /\ Len(clInput.doc) = 2
    /\ NoPatternMatches(clInput.doc)
    /\ clResult.summary.totalClauses = 0

\* C14: for a classification result with zero clauses assessRisk returns
\* overallRiskScore 0 and riskGrade 'A'.
C14_NoClausesScoreZero ==
    (RiskDone /\ rkInput.clauses = <<>>) =>
        /\ rkResult.overallRiskScore = 0
        /\ rkResult.riskGrade = "A"

\* A result without clauses has been assessed on a text with a critical
\* pattern: the score is 0 although a critical factor is reported.
C14_Witness ==
    /\ RiskDone
    /\ rkInput.clauses = <<>>
    /\ rkResult.overallRiskScore = 0
    /\ rkResult.financialImpact.costRisk = "critical"

(***************************************************************************)
(* Claims about the multilingual summarizer.                               *)
(***************************************************************************)

CallDone == mlCall # NoResult /\ mlCall.pc \in {"returned", "raised"}
CallReturned == mlCall # NoResult /\ mlCall.pc = "returned"

\* The text is valid: not empty, not of blanks only, of 50 characters or
\* more.
ValidText(text) == ~IsBlank(text) /\ Length(text) >= 50

\* The calls of the translator for item `item` (0 the summary, j the j-th
\* key point) of the language at position k of the list.
CallsFor(k, item) ==
    SelectSeq(translatorCalls, LAMBDA c : c.i = k /\ c.item = item)

\* The call for the item was made and failed.
FailedFor(k, item) ==
    \E n \in DOMAIN translatorCalls :
        /\ translatorCalls[n].i = k
        /\ translatorCalls[n].item = item
        /\ ~translatorCalls[n].ok

\* What the result holds for an English text in a language: the text, its
\* translation, or the text with the annotation in front.
ShownAs(r, text, langCode, failed) ==
    IF langCode = "en" THEN r = text
    ELSE IF failed
    THEN r.kind = "unavailable" /\ r.of = text
    ELSE r.kind = "translated" /\ r.to = langCode /\ r.of = text

\* C15: for a valid text and a non-empty language list the call returns
\* one SummaryResult per requested language, in the order of the request,
\* whichever calls of the translator fail; summary and key points of a
\* language are the English text with the annotation in front where the
\* call of that language for them failed, and depend on no call of another
\* language.
C15_OneResultPerLanguage ==
    (mlCall # NoResult /\ ValidText(mlInput.text) /\ mlInput.languages # <<>>) =>
        /\ mlCall.pc # "raised"
        /\ mlCall.pc = "returned" =>
            /\ Len(mlCall.summaries) = Len(mlInput.languages)
            /\ \A k \in DOMAIN mlInput.languages :
                LET langCode == mlInput.languages[k]
                    r == mlCall.summaries[k]
                IN  /\ r.languageCode = langCode
                    /\ ShownAs(r.summary, mlCall.englishSummary, langCode,
                               FailedFor(k, 0))
                    /\ Len(r.keyPoints) = Len(mlCall.keyPoints)
                    /\ \A j \in DOMAIN mlCall.keyPoints :
                            ShownAs(r.keyPoints[j], mlCall.keyPoints[j], langCode,
                                    FailedFor(k, j))

\* A call for two languages has returned; the translation of the summary
\* failed for the first and that of a key point for the second.
C15_Witness ==
    /\ CallReturned
    /\ Len(mlInput.languages) = 2
    /\ mlInput.languages[1] # mlInput.languages[2]
    /\ FailedFor(1, 0)
    /\ ~FailedFor(2, 0)
    /\ \E j \in DOMAIN mlCall.keyPoints : FailedFor(2, j)

\* C16: during a call the translator is never called for 'en' and never
\* twice for the same summary or key point of a requested language, also
\* after a failure; when the call returns it has been called once for the
\* summary and once for each key point of every requested language other
\* than 'en'.
C16_TranslatorCalledOnce ==
    mlCall # NoResult =>
        /\ \A n \in DOMAIN translatorCalls :
            /\ translatorCalls[n].language # "en"
            /\ mlInput.languages[translatorCalls[n].i] = translatorCalls[n].language
            /\ Len(CallsFor(translatorCalls[n].i, translatorCalls[n].item)) = 1
        /\ mlCall.pc = "returned" =>
            \A k \in DOMAIN mlInput.languages :
                LET calls == SelectSeq(translatorCalls, LAMBDA c : c.i = k)
                IN  IF mlInput.languages[k] = "en" THEN calls = <<>>
                    ELSE /\ Len(calls) = 1 + Len(mlCall.keyPoints)
                         /\ \A item \in 0..Len(mlCall.keyPoints) :
                                Len(CallsFor(k, item)) = 1

\* A call for 'en' and another language has returned after a failed
\* translation of the summary; the text has key points.
C16_Witness ==
    /\ CallReturned
    /\ \E k \in DOMAIN mlInput.languages : mlInput.languages[k] = "en"
    /\ \E k \in DOMAIN mlInput.languages :
            mlInput.languages[k] # "en" /\ FailedFor(k, 0)
    /\ Len(mlCall.keyPoints) >= 5
    /\ Len(translatorCalls) = 1 + Len(mlCall.keyPoints)

\* C18 as stated: the call fails for no text but an empty one or one of
\* blanks only.
C18_FailsOnlyOnBlankText ==
    (mlCall # NoResult /\ mlCall.pc = "raised") => IsBlank(mlInput.text)

\* C18 amended: the call returns a result for every text that is not
\* empty, not of blanks only and of 50 characters or more, when a language
\* is requested, also when the steps of the abstractive summary raise; it
\* fails for the other texts and for an empty language list.
C18_FailsOnlyOnBlankOrShortText ==
    CallDone =>
        (mlCall.pc = "returned"
            <=> (ValidText(mlInput.text) /\ mlInput.languages # <<>>))

\* A call has returned for a text on which the abstractive summary fell
\* back to its rule-based summary.
C18_Witness ==
    /\ CallReturned
    /\ mlInput.text = DocText(<<"C", "C", "C">>)
    /\ mlCall.keyPoints = <<>>
    /\ Len(mlCall.summaries) = 2

(***************************************************************************)
(* Claims about the API routes.                                            *)
(***************************************************************************)

SummarizeRequested ==
    rtRequest # NoResult /\ rtRequest.route = "summarize" /\ rtRequest.kind = "body"

\* The text of the request is absent, empty, of blanks only, shorter than
\* 50 characters or longer than 50,000.
RejectedText(text) ==
    \/ text.kind = "absent"
    \/ text.kind \in {"doc", "blank", "long"}
        /\ (IsBlank(text) \/ Length(text) < MIN_TEXT \/ Length(text) > MAX_TEXT)

\* The request lists a language code that is not supported.
ListsUnsupported(request) ==
    /\ request.languagesKind = "array"
    /\ \E k \in DOMAIN request.languages : request.languages[k] \notin SupportedCodes

\* The request lists languages of which none is supported.
ListsNoSupported(request) ==
    /\ request.languagesKind = "array"
    /\ \A k \in DOMAIN request.languages : request.languages[k] \notin SupportedCodes

\* The request is answered, if at all, with an error, and neither a
\* summary has been made nor the translator called.
RejectedWithoutWork ==
    /\ rtResponse # NoResult =>
        /\ rtResponse.status >= 400
        /\ "error" \in DOMAIN rtResponse
        /\ "summaries" \notin DOMAIN rtResponse
    /\ mlCall # NoResult => mlCall.pc = "raised" /\ mlCall.englishSummary = NoResult
    /\ translatorCalls = <<>>

\* C17 as stated: a summarize request whose text is empty, of blanks only,
\* shorter than 50 or longer than 50,000 characters, or whose languages
\* include an unsupported code, is answered with an error and no
\* summarization or translation work is done for it.
C17_RejectsUnsupportedLanguage ==
    (SummarizeRequested
        /\ (RejectedText(rtRequest.text) \/ ListsUnsupported(rtRequest)))
    => RejectedWithoutWork

\* C17 amended: the same for a request whose text is empty, of blanks only,
\* shorter than 50 or longer than 50,000 characters, or of whose requested
\* languages none is supported; an unsupported code listed next to a
\* supported one is dropped and the request is served.
C17_RejectsWithoutSupportedLanguage ==
    /\ (SummarizeRequested
            /\ (RejectedText(rtRequest.text) \/ ListsNoSupported(rtRequest)))
       => RejectedWithoutWork
    /\ (SummarizeRequested /\ rtRequest.text.kind = "doc"
            /\ ~RejectedText(rtRequest.text)
            /\ ListsUnsupported(rtRequest) /\ ~ListsNoSupported(rtRequest)
            /\ mlInput # NoResult)
       => mlInput.languages = validLanguages(rtRequest)

\* A request with a text shorter than 50 characters, for two supported
\* languages, has been answered with an error after the call raised.
C17_Witness ==
    /\ SummarizeRequested
    /\ rtRequest.text.kind = "doc"
    /\ ~IsBlank(rtRequest.text)
    /\ Length(rtRequest.text) < MIN_TEXT
    /\ rtRequest.languages = <<"en", "hi">>
    /\ mlCall # NoResult
    /\ mlCall.pc = "raised"
    /\ rtResponse # NoResult
    /\ rtResponse.status = 500

\* The placeholder bodies of extractTextFromPDF.
Placeholders == {"placeholder-scanned", "placeholder-error"}

\* An upload of a PDF file whose handling meets no failure of the server.
UploadOfPdf ==
    /\ rtRequest # NoResult
    /\ rtRequest.route = "upload"
    /\ rtRequest.file = "pdf"
    /\ rtRequest.server = "ok"

\* The process-document request made with the text of an upload whose PDF
\* the library could not read or read fewer than 50 characters of.
ProcessOfPlaceholder ==
    /\ rtRequest # NoResult
    /\ rtRequest.route = "process-document"
    /\ rtRequest.after \in {"scanned", "corrupt"}

\* C19: extractTextFromPDF raises for no PDF; when the library fails or
\* yields fewer than 50 characters it returns a placeholder text with
\* isScanned true, the upload route answers 200 with that text, and the
\* process-document request made with it is not refused for want of text:
\* it is answered 200 with the classification result when the
\* classify-clauses request it makes is answered ok.
C19_PlaceholderKeepsPipelineRunning ==
    /\ \A pdf \in {"scanned", "corrupt"} :
        /\ extractTextFromPDF(pdf).isScanned
        /\ extractTextFromPDF(pdf).text \in Placeholders
    /\ (UploadOfPdf /\ rtResponse # NoResult) =>
        /\ rtResponse.ok
        /\ rtResponse.status = 200
        /\ rtResponse.extractedText # ""
        /\ rtRequest.pdf \in {"scanned", "corrupt"} =>
                rtResponse.extractedText \in Placeholders
    /\ ProcessOfPlaceholder =>
        /\ rtRequest.extractedText \in Placeholders
        /\ rtResponse # NoResult =>
            /\ rtResponse.status # 400
            /\ rtRequest.classify = "ok" =>
                /\ rtResponse.ok
                /\ rtResponse.status = 200
                /\ rtResponse.classificationResult = "result"

\* The text of an unreadable PDF has gone through upload and
\* process-document, and the classification result is in the answer.
C19_Witness ==
    /\ ProcessOfPlaceholder
    /\ rtRequest.after = "corrupt"
    /\ rtRequest.extractedText = "placeholder-error"
    /\ rtResponse # NoResult
    /\ rtResponse.status = 200
    /\ rtResponse.classificationResult = "result"

\* The fields of a response that carry results.
ResultFields ==
    {"success", "extractedText", "pageCount", "wordCount", "classificationResult",
     "result", "riskAssessment", "summaries", "apiInfo"}

\* The error of the catch of each route.
GenericError(route) ==
    CASE route = "upload" -> "Failed to process PDF file"
      [] route = "process-document" -> "Failed to process document"
      [] route = "classify-clauses" -> "Failed to classify clauses"
      [] route = "assess-risk" -> "Failed to assess risk"
      [] route = "summarize" -> "Server error (HTTP 500)"

\* Something raises while the route handles the request: the body cannot be
\* read, a value is not of the type the handler uses it as, a request the
\* handler makes fails, the summarizer raises.  (A body of the summarize
\* route that is not JSON is one of the errors that route checks for.)
ErrorRaised ==
    CASE rtRequest.route = "upload" -> rtRequest.server = "throws"
      [] rtRequest.route = "process-document" ->
            \/ rtRequest.kind = "malformed"
            \/ rtRequest.extractedText # "" /\ rtRequest.classify = "throws"
      [] rtRequest.route = "classify-clauses" ->
            \/ rtRequest.kind = "malformed"
            \/ rtRequest.text = "notString"
      [] rtRequest.route = "assess-risk" ->
            \/ rtRequest.kind = "malformed"
            \/ /\ rtRequest.classificationResult # NoResult
               /\ rtRequest.documentText # <<>>
               /\ "clauses" \notin DOMAIN rtRequest.classificationResult
      [] rtRequest.route = "summarize" ->
            /\ rtRequest.kind = "body"
            /\ \/ rtRequest.text.kind = "notString"
               \/ /\ rtRequest.text.kind \in {"doc", "blank", "long"}
                  /\ ~IsBlank(rtRequest.text)
                  /\ Length(rtRequest.text) <= MAX_TEXT
                  /\ rtRequest.languagesKind = "notArray"
               \/ mlCall # NoResult /\ mlCall.pc = "raised"

\* The timer of the summarize route has fired: the request is answered
\* while the call of the summarizer has made no summary yet, or goes on.
TimedOut ==
    /\ rtRequest.route = "summarize"
    /\ rtResponse # NoResult
    /\ mlCall # NoResult
    /\ mlCall.pc # "raised"
    /\ "summaries" \notin DOMAIN rtResponse

\* The response, if there is one, has an error or results, never both, and
\* is the route's generic failure when something raised or the timer fired.
FailureOrResults ==
    (rtRequest # NoResult /\ rtResponse # NoResult) =>
        /\ rtResponse.status \in {200, 400, 500}
        /\ IF rtResponse.status = 200
           THEN "error" \notin DOMAIN rtResponse
           ELSE /\ "error" \in DOMAIN rtResponse
                /\ DOMAIN rtResponse \cap ResultFields = {}
        /\ (ErrorRaised \/ TimedOut) =>
            /\ rtResponse.status = 500
            /\ rtResponse.error = GenericError(rtRequest.route)

\* A request is being handled and has no response yet.
RequestPending == rtRequest # NoResult /\ rtResponse = NoResult

\* The handler is about to call classifyDocument, assessRisk or
\* generateMultilingualSummary: the call returns, or raises into the catch
\* of the handler.
AtLibraryCall ==
    \/ rtRequest.route \in {"classify-clauses", "assess-risk"}
    \/ rtRequest.route = "summarize" /\ mlInput # NoResult /\ mlCall = NoResult

\* C20: what raises while a route handles a request (the timer of the
\* summarize route included) is answered with status 500 and the error of
\* the route's catch; no response has both an error and results; and a
\* request without a response is never stuck: its handler is at a call of
\* the library or has a step to take.
C20_ErrorsAnsweredGenerically ==
    /\ FailureOrResults
    /\ RequestPending => (AtLibraryCall \/ ENABLED NextRoutes)

\* The timer fired while a key point was being translated; the call went
\* on and returned its summaries, and the answer is the error alone.
C20_Witness ==
    /\ rtRequest # NoResult
    /\ rtRequest.route = "summarize"
    /\ rtResponse # NoResult
    /\ rtResponse.status = 500
    /\ mlCall # NoResult
    /\ mlCall.pc = "returned"
    /\ mlCall.summaries # <<>>
    /\ translatorCalls # <<>>

(***************************************************************************)
(* Deduplication, order and limit of the classifier's clause list.         *)
(***************************************************************************)

\* The predicate of the findIndex call in classifyDocument: two matches
\* that the filter treats as one.
SameGroup(a, b) ==
    /\ Abs(a.startIndex - b.startIndex) < DEDUP_DISTANCE
    /\ a.type = b.type

\* The indices of the collected matches that the filter keeps: a match is
\* kept when no match before it in collection order is in its group.
RetainedIndices(self) ==
    {k \in DOMAIN self : \A h \in 1..(k - 1) : ~SameGroup(self[h], self[k])}

\* The matches in the group of match k.
GroupOf(self, k) == {j \in DOMAIN self : SameGroup(self[j], self[k])}

\* C21: among the matches of one clause type whose start offsets are
\* within 100 characters of a match, exactly one is retained by the
\* deduplication, and it is one of highest confidence in that group.
C21_KeepsHighestConfidence ==
    clResult # NoResult =>
        LET all == clResult.allClauses
        IN  \A k \in DOMAIN all :
                LET kept == GroupOf(all, k) \cap RetainedIndices(all)
                IN  /\ Cardinality(kept) = 1
                    /\ \A r \in kept : \A j \in GroupOf(all, k) :
                          all[j].confidence <= all[r].confidence

\* The elements of a list.
Range(s) == {s[k] : k \in DOMAIN s}

\* The matches left by the filter of duplicates, before sort and slice.
Deduplicated == RemoveDuplicates(clResult.allClauses)

\* C22: the returned clause list is in non-increasing confidence order,
\* and when more than 20 deduplicated matches exist it holds 20 of them and
\* no discarded deduplicated match has a confidence strictly greater than
\* that of a returned one.
C22_SortedTopTwenty ==
    clResult # NoResult =>
        LET returned == clResult.clauses
        IN  /\ \A k \in 1..(Len(returned) - 1) :
                  returned[k].confidence >= returned[k + 1].confidence
            /\ Range(returned) \subseteq Range(Deduplicated)
            /\ Len(Deduplicated) > MAX_CLAUSES =>
                  /\ Len(returned) = MAX_CLAUSES
                  /\ \A d \in Range(Deduplicated) \ Range(returned) :
                        \A r \in Range(returned) :
                            d.confidence <= r.confidence

\* More than 20 deduplicated matches of different confidences, the most
\* confident one collected after the twentieth.
C22_Witness ==
    /\ clResult # NoResult
    /\ Len(Deduplicated) > MAX_CLAUSES
    /\ Len(clResult.clauses) = MAX_CLAUSES
    /\ \E k \in DOMAIN Deduplicated :
          /\ k > MAX_CLAUSES
          /\ Deduplicated[k] = clResult.clauses[1]
          /\ \E d \in Range(Deduplicated) \ Range(clResult.clauses) :
                d.confidence < Deduplicated[k].confidence

\* C28: no two returned clauses of one type have start offsets less than
\* 100 characters apart, and every match removed by the deduplication has
\* a retained match of its type whose start offset is less than 100
\* characters from its own.
C28_RemovedHaveRetainedNeighbour ==
    clResult # NoResult =>
        LET returned == clResult.clauses
        IN  /\ \A i, j \in DOMAIN returned :
                  i # j => ~SameGroup(returned[i], returned[j])
            /\ \A m \in Range(clResult.allClauses) \ Range(Deduplicated) :
                  \E r \in Range(Deduplicated) : SameGroup(r, m)

(***************************************************************************)
(* The risk level of a clause.                                             *)
(***************************************************************************)

\* The clause text has a keyword of the level's list of RISK_KEYWORDS.
HasRiskKeyword(doc, c, level) ==
    \E k \in DOMAIN RISK_KEYWORDS[level] :
        ClauseHas(doc, c, RISK_KEYWORDS[level][k])

\* The tests of assessRisk for a clause type, in the order of the code.
TypeTriggers ==
    [termination |-> << [level |-> "high", words |-> {"immediate", "without notice"}],
                        [level |-> "medium", words |-> {"30 days", "notice period"}] >>,
     liability |-> << [level |-> "high", words |-> {"unlimited", "no limit"}],
                      [level |-> "medium", words |-> {"indemnify", "damages"}] >>,
     payment |-> << [level |-> "medium", words |-> {"penalty", "late fee"}],
                    [level |-> "high", words |-> {"personal guarantee"}] >>,
     nda |-> << >>,
     intellectual_property |-> << >>]

\* What the heuristic of the clause type gives for a clause: the level of
\* the first test that finds one of its words, "none" when no test does.
TypeHeuristic(doc, c) ==
    LET tests == TypeTriggers[c.type]
        hits == {k \in DOMAIN tests :
                    \E w \in tests[k].words : ClauseHas(doc, c, w)}
    IN  IF hits = {} THEN "none"
        ELSE tests[CHOOSE k \in hits : \A h \in hits : k <= h].level

\* C24: a clause whose window has a high risk keyword is 'high'; otherwise
\* one whose window has a medium risk keyword is 'medium', also where the
\* heuristic of its type gives 'high'; otherwise the heuristic of the type
\* decides where it applies; and where none of these applies and the
\* window has a formal connective and more than 300 characters, the level
\* is 'medium' or 'low'.
C24_RiskPriorityCascade ==
    clResult # NoResult =>
        \A c \in Range(clResult.allClauses) :
            LET doc == clInput.doc
            IN  IF HasRiskKeyword(doc, c, "high") THEN c.riskLevel = "high"
                ELSE IF HasRiskKeyword(doc, c, "medium") THEN c.riskLevel = "medium"
                ELSE IF TypeHeuristic(doc, c) # "none"
                THEN c.riskLevel = TypeHeuristic(doc, c)
                ELSE (/\ ClauseHas(doc, c, "<complex>")
                      /\ c.text[2] - c.text[1] > LONG_CLAUSE)
                        => c.riskLevel \in {"medium", "low"}

\* A termination clause with 'written notice' and 'immediate' in its
\* window and no high risk keyword, which is 'medium'.
C24_Witness ==
    /\ clResult # NoResult
    /\ \E c \in Range(clResult.allClauses) :
          /\ c.type = "termination"
          /\ ClauseHas(clInput.doc, c, "written notice")
          /\ ClauseHas(clInput.doc, c, "immediate")
          /\ ~HasRiskKeyword(clInput.doc, c, "high")
          /\ TypeHeuristic(clInput.doc, c) = "high"
          /\ c.riskLevel = "medium"

(***************************************************************************)
(* The risk factor list and the financial impact.                          *)
(***************************************************************************)

\* The number of factors of a severity in the result.
FactorsOf(severity) ==
    Cardinality({k \in DOMAIN rkResult.riskFactors :
                    rkResult.riskFactors[k].severity = severity})

\* The number of high-risk clauses handed to the engine.
HighRiskCount ==
    Cardinality({k \in DOMAIN rkInput.clauses : rkInput.clauses[k].riskLevel = "high"})

\* The critical patterns present in the text, by their index.
PatternsPresent ==
    {k \in DOMAIN CRITICAL_PATTERNS :
        includes(toLowerCase(rkInput.text), CRITICAL_PATTERNS[k])}

\* The number of protections the text does not name.
MissingCount ==
    LET lowerText == toLowerCase(rkInput.text)
    IN  (IF \E p \in {<<"force", "majeure">>, <<"act", "of", "god">>} :
               includes(lowerText, p)
         THEN 0 ELSE 1)
        + (IF \E p \in {<<"arbitration">>, <<"mediation">>,
                         <<"dispute", "resolution">>} : includes(lowerText, p)
           THEN 0 ELSE 1)

\* C25: the risk factors are one 'critical' factor per critical pattern
\* present in the text, one 'high' factor per clause whose riskLevel is
\* 'high' and one 'medium' factor per missing protection, and nothing
\* else; no factor has severity 'low'.
C25_FactorsBySource ==
    RiskDone =>
        /\ {rkResult.riskFactors[k].id : k \in
                {j \in DOMAIN rkResult.riskFactors :
                    rkResult.riskFactors[j].severity = "critical"}}
              = {<<"critical", k - 1>> : k \in PatternsPresent}
        /\ FactorsOf("critical") = Cardinality(PatternsPresent)
        /\ FactorsOf("high") = HighRiskCount
        /\ FactorsOf("medium") = MissingCount
        /\ FactorsOf("low") = 0
        /\ Len(rkResult.riskFactors)
              = Cardinality(PatternsPresent) + HighRiskCount + MissingCount

\* A result with factors of all three sources, from clauses of which one
\* is high risk and one is not.
C25_Witness ==
    /\ RiskDone
    /\ FactorsOf("critical") >= 1
    /\ FactorsOf("high") = 1
    /\ FactorsOf("medium") = 1
    /\ Len(rkInput.clauses) = 2

\* C26: costRisk is 'critical' iff the text has "unlimited liability" or
\* "personal guarantee"; otherwise 'high' iff more than 3 clauses are high
\* risk; otherwise 'medium' iff more than 1 clause is high risk; otherwise
\* 'low'; potentialLiability is Unlimited, Significant, Moderate, Limited
\* in that order.
C26_CostRiskLadder ==
    RiskDone =>
        LET impact == rkResult.financialImpact
            critical == PatternsPresent \cap {1, 2} # {}
        IN  /\ impact.costRisk = "critical" <=> critical
            /\ impact.costRisk = "high" <=> (~critical /\ HighRiskCount > 3)
            /\ impact.costRisk = "medium" <=>
                  (~critical /\ ~(HighRiskCount > 3) /\ HighRiskCount > 1)
            /\ impact.costRisk = "low" <=> (~critical /\ ~(HighRiskCount > 1))
            /\ impact.potentialLiability =
                  (CASE impact.costRisk = "critical" -> "Unlimited"
                     [] impact.costRisk = "high" -> "Significant"
                     [] impact.costRisk = "medium" -> "Moderate"
                     [] impact.costRisk = "low" -> "Limited")

\* Three high-risk clauses and no critical phrase: 'medium', one clause
\* short of 'high'.
C26_Witness ==
    /\ RiskDone
    /\ HighRiskCount = 3
    /\ PatternsPresent = {}
    /\ rkResult.financialImpact.costRisk = "medium"
    /\ rkResult.financialImpact.potentialLiability = "Moderate"

(***************************************************************************)
(* The confidence of a summary.                                            *)
(***************************************************************************)

\* The bonuses the text earns in calculateConfidence of the summarizer.
ConfidenceBonuses(text) ==
    LET themes == {LEGAL_THEMES[t] : t \in
                      {j \in DOMAIN LEGAL_THEMES :
                          \E i \in DOMAIN text :
                              \E p \in Sentence(text, i).themes :
                                  p[1] = LEGAL_THEMES[j]}}
        kept == {i \in DOMAIN text :
                    Sentence(text, i).len > MIN_SENTENCE /\ ~Sentence(text, i).formal}
        total == SumOver(kept, [i \in kept |-> Sentence(text, i).len])
        words == UNION {SummaryWords[text[i]] : i \in kept}
    IN  {b \in {"theme", "themes", "long", "longer", "words"} :
            \/ b = "theme" /\ Cardinality(themes) > 0
            \/ b = "themes" /\ Cardinality(themes) > 2
            \/ b = "long" /\ kept # {} /\ total > LONG_AVERAGE * Cardinality(kept)
            \/ b = "longer" /\ kept # {} /\ total > LONGER_AVERAGE * Cardinality(kept)
            \/ b = "words" /\ Cardinality(words) > MANY_WORDS}

\* The sentences of the text with more than 20 characters, at most three.
FirstLongSentences(text) ==
    LET long == {i \in DOMAIN text : Sentence(text, i).len > MIN_FALLBACK_SENTENCE}
    IN  {i \in long : Cardinality({j \in long : j < i}) < 3}

AbstractiveFails(text) ==
    /\ text.kind = "doc"
    /\ createDetailedSections(text.doc, extractLegalThemes(text.doc),
                              preserveOriginalTerms(text.doc)).kind = "TypeError"

\* C23: when the abstractive summarization of a document fails, the
\* summary and key points used for the languages are those of the
\* extractive tier; the truncation tier is used only after a failure of
\* the abstractive tier.
C23_ExtractiveAfterAbstractiveFailure ==
    (mlCall # NoResult /\ mlCall.pc # "raised") =>
        /\ AbstractiveFails(mlInput.text) => mlCall.tier = "extractive"
        /\ mlCall.tier = "truncation" => AbstractiveFails(mlInput.text)

(***************************************************************************)
(* Concurrent calls of the Python translator.                              *)
(***************************************************************************)

\* C29: concurrent calls of translateText are isolated: the command of a
\* call reads the text of that call, and the temporary file a call has
\* written still holds its text (no other call has overwritten or removed
\* it) as long as the call's command has not read it.
C29_ConcurrentCallsIsolated ==
    \A c \in TranslationCalls :
        /\ pyCalls[c].read # <<>> => pyCalls[c].read = <<pyCalls[c].text>>
        /\ pyCalls[c].pc = "spawned" => tempFile = <<pyCalls[c].text>>

(***************************************************************************)
(* A superseded utterance of the text to speech service.                   *)
(***************************************************************************)

\* C30: an utterance whose speak call superseded an utterance that was
\* being spoken is the current utterance until it ends, fails or is
\* stopped, and while it is spoken the last reported state describes it
\* as playing or paused: the events of the cancelled utterance change
\* neither.
C30_SupersedingUtteranceKept ==
    \A b \in DOMAIN utterances :
        (utterances[b].superseded /\ utterances[b].status \in {"queued", "speaking"}) =>
            /\ currentUtterance = b
            /\ utterances[b].status = "speaking" =>
                  /\ reported.currentText = b
                  /\ reported.isPlaying \/ reported.isPaused

====
